---- MODULE Spec2Model ----
(***************************************************************************)
(* Bitfinex funding monitor: the status aggregation of bitfinex_api.py,    *)
(* the poll cycle and scheduler loop of monitor.py, the message selection  *)
(* of notifications.py and the reconnect loop of telegram_bot.py.          *)
(*                                                                         *)
(* Numbers are fixed point.  A rate is an integer number of thousandths of *)
(* a percent (5012 is 5.012 %), a rate rounded to 2 decimals an integer    *)
(* number of hundredths (501 is 5.01 %).  An amount is an integer number   *)
(* of 1e-9 units (500100000 is 0.5001), an amount rounded to 8 decimals an *)
(* integer number of 1e-8 units.  No value of the input sets lies on a     *)
(* rounding tie.                                                           *)
(***************************************************************************)
EXTENDS Integers, Sequences, FiniteSets, TLC

VARIABLES
    pc,               \* position of the main thread (main.py, FundingMonitor.run)
    cpc,              \* position inside check_for_changes
    previous_status,  \* FundingMonitor.previous_status
    current_status,   \* local current_status of the cycle in flight
    fetched,          \* the balances, offers and loans the get_funding_status in
                      \* flight read
    todo,             \* currencies the loop of check_for_changes has not visited yet
    notes,            \* calls of send_notification made by the cycle
    sends,            \* per currency: how many of them the cycle has made
    file,             \* the snapshot file config.DATA_FILE
    elapsed,          \* whole intervals elapsed since the job started or was scheduled
    running,          \* number of check_for_changes calls executing
    config,           \* the settings of config.py the process runs with
    environ,          \* the credentials set in the environment of the process
    bot,              \* FundingMonitor.telegram_bot: "absent" (None) or "ready"
    is_running,       \* TelegramBot.is_running
    should_stop,      \* TelegramBot.should_stop
    reconnect_delay,  \* TelegramBot.reconnect_delay
    bpc,              \* position of each run_bot thread ("none": no such thread)
    spc,              \* position of the caller inside TelegramBot.stop
    stop_req,         \* threads whose infinity_polling was told to stop
    last_cmd,         \* the last command a handler of the bot served: who sent
                      \* it, where the poll cycle was, what was fetched, replied
                      \* and logged
    farewell,         \* how the shutdown message of the last stop() went
    fails,            \* per thread: polling failures in a row since it last listened
    last_recreate     \* how the bot instance was last recreated since the delay
                      \* was last doubled: "ok", "failed" or "none"

monitorVars == <<pc, cpc, previous_status, current_status, fetched, todo, notes, sends, file,
                 elapsed, running>>

botVars == <<config, environ, bot, is_running, should_stop, reconnect_delay, bpc, spc, stop_req,
             farewell, last_cmd, fails, last_recreate>>

vars == <<monitorVars, botVars>>

----------------------------------------------------------------------------
(* Arithmetic helpers *)

Abs(x) == IF x < 0 THEN -x ELSE x

Min(a, b) == IF a < b THEN a ELSE b

\* dict.get(field, default)
Get(rec, field, default) == IF field \in DOMAIN rec THEN rec[field] ELSE default

RECURSIVE SumField(_, _)
SumField(list, field) ==
    IF list = <<>> THEN 0 ELSE Head(list)[field] + SumField(Tail(list), field)

\* round(x, 2) of a rate: thousandths -> hundredths (nearest)
Round2(x) == (x + 5) \div 10

\* round(x, 8) of an amount: 1e-9 units -> 1e-8 units (nearest)
Round8(x) == (x + 5) \div 10

EmptyMap == <<>>

----------------------------------------------------------------------------
(* bitfinex_api.py: get_funding_status *)

Currencies == {"USD", "BTC"}

\* variant: a loaned sum of zero counts as active
LendingStatusLoanGE(total_offer_amount, total_loan_amount) ==
    IF total_loan_amount >= 0 THEN "active"
    ELSE IF total_offer_amount > 0 THEN "offered"
    ELSE "inactive"

\* the lending status of bitfinex_api.py:414-419
LendingStatus(total_offer_amount, total_loan_amount) ==
    IF total_loan_amount > 0 THEN "active"
    ELSE IF total_offer_amount > 0 THEN "offered"
    ELSE "inactive"

\* average rate over a list of offers or loans, 0 for the empty list
AvgRate(list) ==
    IF list = <<>> THEN 0 ELSE SumField(list, "rate") \div Len(list)

\* variant: the offered amount is counted in total_balance
CurrencyStatusCountsOffers(balances, offers, loans, currency) ==
    LET wallet_balance    == IF currency \in DOMAIN balances
                             THEN balances[currency] ELSE 0
        currency_offers   == IF currency \in DOMAIN offers
                             THEN offers[currency] ELSE <<>>
        total_offer_amount == SumField(currency_offers, "amount")
        currency_loans    == IF currency \in DOMAIN loans
                             THEN loans[currency] ELSE <<>>
        total_loan_amount == SumField(currency_loans, "amount")
    IN  [ wallet_balance |-> wallet_balance,
          total_balance  |-> wallet_balance + total_loan_amount + total_offer_amount,
          offered_amount |-> total_offer_amount,
          loaned_amount  |-> total_loan_amount,
          num_offers     |-> Len(currency_offers),
          num_loans      |-> Len(currency_loans),
          avg_offer_rate |-> AvgRate(currency_offers),
          avg_loan_rate  |-> AvgRate(currency_loans),
          lending_status |-> LendingStatus(total_offer_amount, total_loan_amount),
          offers         |-> currency_offers,
          loans          |-> currency_loans ]

\* the status record compiled for one currency (bitfinex_api.py:394-434)
CurrencyStatus(balances, offers, loans, currency) ==
    LET wallet_balance    == IF currency \in DOMAIN balances
                             THEN balances[currency] ELSE 0
        currency_offers   == IF currency \in DOMAIN offers
                             THEN offers[currency] ELSE <<>>
        total_offer_amount == SumField(currency_offers, "amount")
        currency_loans    == IF currency \in DOMAIN loans
                             THEN loans[currency] ELSE <<>>
        total_loan_amount == SumField(currency_loans, "amount")
    IN  [ wallet_balance |-> wallet_balance,
          total_balance  |-> wallet_balance + total_loan_amount,
          offered_amount |-> total_offer_amount,
          loaned_amount  |-> total_loan_amount,
          num_offers     |-> Len(currency_offers),
          num_loans      |-> Len(currency_loans),
          avg_offer_rate |-> AvgRate(currency_offers),
          avg_loan_rate  |-> AvgRate(currency_loans),
          lending_status |-> LendingStatus(total_offer_amount, total_loan_amount),
          offers         |-> currency_offers,
          loans          |-> currency_loans ]

\* variant: only the currencies with an offer or a loan are compiled
GetFundingStatusLent(balances, offers, loans) ==
    LET all_currencies == DOMAIN offers \cup DOMAIN loans
    IN  [currency \in all_currencies |->
            CurrencyStatus(balances, offers, loans, currency)]

\* get_funding_status over the three fetched maps
GetFundingStatus(balances, offers, loans) ==
    LET all_currencies == DOMAIN balances \cup DOMAIN offers \cup DOMAIN loans
    IN  [currency \in all_currencies |->
            CurrencyStatus(balances, offers, loans, currency)]

----------------------------------------------------------------------------
(* The two threshold comparisons, made on IEEE-754 doubles *)

\* Rounded rates k (hundredths) in 490..519 for which the double nearest
\* (k+1)/100 minus the double nearest k/100 exceeds the double nearest 0.01
\* (5.03 - 5.02 is 0.010000000000000675); for the others the difference is
\* below it (5.01 - 5.0 is 0.009999999999999787).
FloatStepAbove001 == {493, 497, 502, 506, 510, 514, 518}

\* variant: the comparison is inverted (abs(old_rate - new_rate) < 0.01)
RateDeltaBelow(old_rate, new_rate) ==
    LET d == Abs(old_rate - new_rate)
    IN  IF d = 1 THEN Min(old_rate, new_rate) \notin FloatStepAbove001 ELSE d < 1

\* abs(old_rate - new_rate) > 0.01 on rates already rounded to 2 decimals
RateDeltaExceeds(old_rate, new_rate) ==
    LET d == Abs(old_rate - new_rate)
    IN  IF d = 1 THEN Min(old_rate, new_rate) \in FloatStepAbove001 ELSE d > 1

\* abs(old_amount - new_amount) > 0.0001 on amounts already rounded to 8
\* decimals (1e-8 units); on the amounts of the input sets the double
\* comparison agrees with the exact one (0.5001 - 0.5 is 9.999999999998899e-05)
AmountDeltaExceeds(old_amount, new_amount) ==
    Abs(old_amount - new_amount) > 10000

----------------------------------------------------------------------------
(* notifications.py *)

\* NotificationManager.channels: the channels enabled in config.py:15-41
Channels == {"telegram", "desktop"}

\* what provider.notify does on one channel
Outcomes == {"Success", "Failure", "raise"}

\* the channels of config.py in the order _setup_channels adds them to
\* NotificationManager.channels
ChannelOrder == <<"email", "telegram", "discord", "slack", "desktop">>

NotAttempted == [successful |-> FALSE, attempted |-> <<>>]

\* variant: a channel that raises ends the loop
RECURSIVE SendLoopRaiseEnds(_, _, _)
SendLoopRaiseEnds(order, outcomes, acc) ==
    IF order = <<>> THEN acc
    ELSE LET channel_name == Head(order)
         IN  IF channel_name \notin DOMAIN outcomes
             THEN SendLoopRaiseEnds(Tail(order), outcomes, acc)
             ELSE LET now == [successful |-> acc.successful
                                              \/ outcomes[channel_name] = "Success",
                              attempted  |-> Append(acc.attempted, channel_name)]
                  IN  IF outcomes[channel_name] = "raise" THEN now
                      ELSE SendLoopRaiseEnds(Tail(order), outcomes, now)

\* the loop of send_notification (notifications.py:107-133) over the enabled
\* channels, outcomes[channel_name] being what provider.notify does there:
\* whether a channel accepted the message, and the channels attempted
RECURSIVE SendLoop(_, _, _)
SendLoop(order, outcomes, acc) ==
    IF order = <<>> THEN acc
    ELSE LET channel_name == Head(order)
         IN  IF channel_name \notin DOMAIN outcomes
             THEN SendLoop(Tail(order), outcomes, acc)
             ELSE SendLoop(Tail(order), outcomes,
                           [successful |-> acc.successful
                                             \/ outcomes[channel_name] = "Success",
                            attempted  |-> Append(acc.attempted, channel_name)])

\* send_notification: its return value
SendNotification(outcomes) ==
    SendLoop(ChannelOrder, outcomes, NotAttempted).successful

\* str() of a non-negative float that has at most `width` decimals, given as
\* the integer x = float * 10^width: the shortest decimal form, at least one
\* decimal ("5.0", "5.02", "0.5001"); for floats in [0.0001, 1e16), which
\* Python prints without an exponent
RECURSIVE Power10(_)
Power10(n) == IF n = 0 THEN 1 ELSE 10 * Power10(n - 1)

RECURSIVE ZeroPad(_, _)
ZeroPad(digits, width) ==
    IF Len(digits) < width THEN ZeroPad("0" \o digits, width) ELSE digits

RECURSIVE Decimals(_, _)
Decimals(frac, width) ==
    IF frac = 0 THEN "0"
    ELSE IF frac % 10 = 0 THEN Decimals(frac \div 10, width - 1)
    ELSE ZeroPad(ToString(frac), width)

FloatStr(x, width) ==
    ToString(x \div Power10(width)) \o "." \o Decimals(x % Power10(width), width)

\* a rate rounded to 2 decimals, an amount rounded to 8, as format() prints
RateStr(rate) == FloatStr(rate, 2)

AmountStr(amount) == FloatStr(amount, 8)

Title(currency) == "Bitfinex " \o currency \o " Lending Status Change"

\* the rate line and amount line of an active -> active change
RateLine(currency, old_rate, new_rate) ==
    currency \o ": Rate changed from " \o RateStr(old_rate) \o "% to "
             \o RateStr(new_rate) \o "%"

AmountLine(currency, old_amount, new_amount) ==
    currency \o ": Amount changed from " \o AmountStr(old_amount) \o " to "
             \o AmountStr(new_amount)

AppendedAmountLine(currency, old_amount, new_amount) ==
    "\nAmount changed from " \o AmountStr(old_amount) \o " to "
        \o AmountStr(new_amount) \o " " \o currency

\* variant: the amount line replaces a rate line already built
WithAmountLineAlone(message, currency, old_amount, new_amount) ==
    AmountLine(currency, old_amount, new_amount)

\* notifications.py:190-194: the amount line is appended to a rate line
\* already built, else it is the message
WithAmountLine(message, currency, old_amount, new_amount) ==
    IF message # ""
    THEN message \o AppendedAmountLine(currency, old_amount, new_amount)
    ELSE AmountLine(currency, old_amount, new_amount)

\* variant: the templates of offered -> inactive and active -> inactive are
\* taken for each other, and the activation rate is not rounded
MessageTemplatesSwapped(currency, old_status, new_status) ==
    LET old_lending_status == old_status.lending_status
        new_lending_status == new_status.lending_status
    IN
    IF old_lending_status = "inactive" /\ new_lending_status = "offered"
    THEN currency \o " funds are now offered for lending"
    ELSE IF old_lending_status = "offered" /\ new_lending_status = "active"
    THEN currency \o ": Lending activated at "
                  \o FloatStr(new_status.avg_loan_rate, 3) \o "% APR"
    ELSE IF old_lending_status = "offered" /\ new_lending_status = "inactive"
    THEN currency \o ": Lending closed, funds returned"
    ELSE IF old_lending_status = "active" /\ new_lending_status = "inactive"
    THEN currency \o ": Lending cancelled"
    ELSE ""

\* the message notify_lending_status_change builds
Message(currency, old_status, new_status) ==
    LET old_lending_status == old_status.lending_status
        new_lending_status == new_status.lending_status
    IN
    IF old_lending_status = "inactive" /\ new_lending_status = "offered"
    THEN currency \o " funds are now offered for lending"
    ELSE IF old_lending_status = "offered" /\ new_lending_status = "active"
    THEN currency \o ": Lending activated at "
                  \o RateStr(Round2(new_status.avg_loan_rate)) \o "% APR"
    ELSE IF old_lending_status = "offered" /\ new_lending_status = "inactive"
    THEN currency \o ": Lending cancelled"
    ELSE IF old_lending_status = "active" /\ new_lending_status = "inactive"
    THEN currency \o ": Lending closed, funds returned"
    ELSE IF old_lending_status = "active" /\ new_lending_status = "active"
    THEN LET old_rate   == Round2(old_status.avg_loan_rate)
             new_rate   == Round2(new_status.avg_loan_rate)
             old_amount == Round8(old_status.loaned_amount)
             new_amount == Round8(new_status.loaned_amount)
             rate_part  == IF RateDeltaExceeds(old_rate, new_rate)
                           THEN RateLine(currency, old_rate, new_rate)
                           ELSE ""
         IN  IF AmountDeltaExceeds(old_amount, new_amount)
             THEN WithAmountLine(rate_part, currency, old_amount, new_amount)
             ELSE rate_part
    ELSE ""

\* notify_lending_status_change: the calls of send_notification it makes, as
\* the set of notes added (none when the message is empty)
NotifyLendingStatusChange(currency, old_status, new_status, outcomes) ==
    LET message == Message(currency, old_status, new_status)
    IN  IF message # ""
        THEN {[currency   |-> currency,
               title      |-> Title(currency),
               message    |-> message,
               successful |-> SendNotification(outcomes),
               attempted  |-> SendLoop(ChannelOrder, outcomes, NotAttempted).attempted]}
        ELSE {}

----------------------------------------------------------------------------
(* What the exchange returns to one fetch of balances, offers and loans *)

Offer(amount, rate) == [amount |-> amount, rate |-> rate]

\* open offers: 0.5 at 4.00 %, 0.7 at 4.50 %
Offer1 == Offer(500000000, 4000)
Offer2 == Offer(700000000, 4500)

\* loans: 0.5 at 5.00 %, and variations of the rate and of the amount
Loan500 == Offer(500000000, 5000)
Loan501 == Offer(500000000, 5012)
Loan502 == Offer(500000000, 5020)
Loan503 == Offer(500000000, 5030)
LoanAmt1 == Offer(500100000, 5000)
LoanAmt2 == Offer(500100010, 5000)
LoanBoth == Offer(500100010, 5020)

PerCurrency(bal, offers, loans) == [bal |-> bal, offers |-> offers, loans |-> loans]

\* nothing, 0.25 in the wallet only, an open offer, a loan
CoarseCases ==
    { PerCurrency(0, <<>>, <<>>), PerCurrency(250000000, <<>>, <<>>),
      PerCurrency(250000000, <<Offer1>>, <<>>), PerCurrency(0, <<>>, <<Loan500>>) }

RichCases ==
    CoarseCases \cup
    { PerCurrency(0, <<>>, <<l>>) :
        l \in {Loan501, Loan502, Loan503, LoanAmt1, LoanAmt2, LoanBoth} } \cup
    { PerCurrency(250000000, <<Offer1>>, <<Loan500>>),
      PerCurrency(0, <<>>, <<Loan500, Loan502>>),
      PerCurrency(250000000, <<Offer2>>, <<>>),
      PerCurrency(100000000, <<>>, <<>>) }

CoarseInputs == [Currencies -> CoarseCases]

RichInputs ==
    { inp \in [Currencies -> RichCases] :
        inp["BTC"] \in CoarseCases \cup {PerCurrency(250000000, <<Offer2>>, <<>>)} }

\* offers and loans of every sign for USD (an amount of 0 is also what the
\* parsing makes of an invalid one), two records cancelling each other
SignedLists(rate) ==
    { <<>>, <<Offer(-500000000, rate)>>, <<Offer(0, rate)>>,
      <<Offer(500000000, rate)>>,
      <<Offer(500000000, rate), Offer(-500000000, rate)>> }

SignInputs ==
    { [c \in Currencies |->
          IF c = "USD" THEN PerCurrency(bal, offers, loans)
                       ELSE PerCurrency(0, <<>>, <<>>)] :
        bal \in {0, 250000000}, offers \in SignedLists(4000),
        loans \in SignedLists(5000) }

\* the three maps the fetches return: a currency is a key of balances when
\* its wallet amount is > 0, of offers (loans) when it has an offer (loan)
Balances(inp) == [c \in {x \in Currencies : inp[x].bal > 0} |-> inp[c].bal]

Offers(inp) == [c \in {x \in Currencies : inp[x].offers # <<>>} |-> inp[c].offers]

Loans(inp) == [c \in {x \in Currencies : inp[x].loans # <<>>} |-> inp[c].loans]

----------------------------------------------------------------------------
(* bitfinex_api.py: the three fetches, from the raw responses *)

\* str.upper, on the letters the symbols below are made of
UpperChar(ch) ==
    CASE ch = "b" -> "B" [] ch = "c" -> "C" [] ch = "d" -> "D"
      [] ch = "f" -> "F" [] ch = "i" -> "I" [] ch = "l" -> "L"
      [] ch = "s" -> "S" [] ch = "t" -> "T" [] ch = "u" -> "U"
      [] OTHER -> ch

RECURSIVE StrUpper(_)
StrUpper(s) ==
    IF s = "" THEN ""
    ELSE UpperChar(SubSeq(s, 1, 1)) \o StrUpper(SubSeq(s, 2, Len(s)))

StartsWith(s, prefix) ==
    Len(s) >= Len(prefix) /\ SubSeq(s, 1, Len(prefix)) = prefix

DropFirst(s) == SubSeq(s, 2, Len(s))

\* bitfinex_api.py:243-244 and 319-320: the key of an offer or of a loan
SymbolCurrency(symbol) ==
    StrUpper(IF StartsWith(symbol, "f") THEN DropFirst(symbol) ELSE symbol)

\* bitfinex_api.py:186-189: the key of a wallet parsed from the raw response
\* that CCXT carries
InfoCurrency(currency) ==
    LET upper == StrUpper(currency)
    IN  IF StartsWith(upper, "F") THEN DropFirst(upper) ELSE upper

\* the key of a wallet by the path that parsed it: CCXT's funding wallets
\* (line 168), the raw response in CCXT's balance (186-189), the direct
\* request (211)
WalletCurrency(path, currency) ==
    IF path = "info" THEN InfoCurrency(currency) ELSE StrUpper(currency)

\* float(x) * 365 * 100 of a daily rate in units of 1e-8, as APR in
\* thousandths of a percent
Apr(rate) == (rate * 365) \div 1000

\* dict[key] = value
Put(map, key, value) ==
    [k \in DOMAIN map \cup {key} |-> IF k = key THEN value ELSE map[k]]

\* a raw wallet: whether it is a list and of which length, its type, its
\* currency, and its amount (amount_ok: float() converts it)
RawWallet(islist, len, wallet_type, currency, amount_ok, amount) ==
    [islist |-> islist, len |-> len, wallet_type |-> wallet_type,
     currency |-> currency, amount_ok |-> amount_ok, amount |-> amount]

\* a raw offer or loan: whether it is a list and of which length, its
\* symbol, amount and daily rate (ok: float() converts it)
RawOffer(islist, len, symbol, amount_ok, amount, rate_ok, rate) ==
    [islist |-> islist, len |-> len, symbol |-> symbol,
     amount_ok |-> amount_ok, amount |-> amount,
     rate_ok |-> rate_ok, rate |-> rate]

\* the loop over raw wallets (bitfinex_api.py:179-190 with min_len 3,
\* 204-212 with min_len 4; 166-170 over the funding wallets CCXT sorted
\* out): float() of an amount it cannot convert raises out of the loop
RECURSIVE WalletLoop(_, _, _, _, _)
WalletLoop(wallets, i, min_len, path, funding_balances) ==
    IF i > Len(wallets)
    THEN [raised |-> FALSE, funding_balances |-> funding_balances]
    ELSE LET wallet == wallets[i]
         IN  IF wallet.islist /\ wallet.len >= min_len
             THEN IF ~wallet.amount_ok
                  THEN [raised |-> TRUE, funding_balances |-> funding_balances]
                  ELSE IF wallet.wallet_type = "funding" /\ wallet.amount > 0
                  THEN WalletLoop(wallets, i + 1, min_len, path,
                                  Put(funding_balances,
                                      WalletCurrency(path, wallet.currency),
                                      wallet.amount))
                  ELSE WalletLoop(wallets, i + 1, min_len, path, funding_balances)
             ELSE WalletLoop(wallets, i + 1, min_len, path, funding_balances)

\* the funding wallets as CCXT's balance['funding'] has them
FundingOf(wallets) ==
    SelectSeq(wallets, LAMBDA w : w.islist /\ w.wallet_type = "funding")

\* the direct request of the wallets (bitfinex_api.py:198-217)
DirectWalletBalances(wallets, transport) ==
    IF transport # "ok" THEN EmptyMap
    ELSE LET done == WalletLoop(wallets, 1, 4, "direct", EmptyMap)
         IN  IF done.raised THEN EmptyMap ELSE done.funding_balances

\* get_funding_wallet_balances (bitfinex_api.py:152-217).  ccxt: what
\* fetch_balance does: "raises", or a balance with the "funding" wallets,
\* with the raw response under "info", or with neither ("bare")
GetFundingWalletBalances(ccxt, wallets, transport) ==
    LET done ==
            IF ccxt = "funding"
            THEN WalletLoop(FundingOf(wallets), 1, 0, "funding", EmptyMap)
            ELSE IF ccxt = "info"
            THEN WalletLoop(wallets, 1, 3, "info", EmptyMap)
            ELSE [raised |-> ccxt = "raises", funding_balances |-> EmptyMap]
    IN  IF ~done.raised /\ done.funding_balances # EmptyMap
        THEN done.funding_balances
        ELSE DirectWalletBalances(wallets, transport)

\* the loop over raw offers or loans (bitfinex_api.py:238-288, 314-364): a
\* record that is no list of 16 elements is passed over, an amount or a rate
\* that float() cannot convert counts as 0.0
RECURSIVE OfferLoop(_, _, _)
OfferLoop(offers, i, by_currency) ==
    IF i > Len(offers) THEN by_currency
    ELSE LET offer == offers[i]
             currency == SymbolCurrency(offer.symbol)
             details == [amount |-> IF offer.amount_ok THEN offer.amount ELSE 0,
                         rate |-> IF offer.rate_ok THEN Apr(offer.rate) ELSE 0]
         IN  IF offer.islist /\ offer.len >= 16
             THEN OfferLoop(offers, i + 1,
                      Put(by_currency, currency,
                          Append(Get(by_currency, currency, <<>>), details)))
             ELSE OfferLoop(offers, i + 1, by_currency)

\* variant: a request that fails raises out of the fetch
GetActiveFundingOffersRaising(offers, transport) ==
    IF transport # "ok" THEN [raised |-> TRUE, map |-> EmptyMap]
    ELSE [raised |-> FALSE, map |-> OfferLoop(offers, 1, EmptyMap)]

\* get_active_funding_offers and get_funding_loans (bitfinex_api.py:219-293,
\* 295-369): a request that fails ("http_error": _make_auth_request returns
\* {}, "raises": requests.post raises) gives the empty map
GetActiveFundingOffers(offers, transport) ==
    IF transport # "ok" THEN [raised |-> FALSE, map |-> EmptyMap]
    ELSE [raised |-> FALSE, map |-> OfferLoop(offers, 1, EmptyMap)]

\* get_funding_status from the raw responses: an exception inside it is
\* caught and {} returned (bitfinex_api.py:437-439)
GetFundingStatusRaw(ccxt, raw, transport) ==
    LET balances == GetFundingWalletBalances(ccxt, raw.wallets, transport.wallets)
        offers   == GetActiveFundingOffers(raw.offers, transport.offers)
        loans    == GetActiveFundingOffers(raw.loans, transport.loans)
        raised   == offers.raised \/ loans.raised
    IN  [ccxt |-> ccxt, raw |-> raw, transport |-> transport,
         balances |-> IF raised THEN EmptyMap ELSE balances,
         offers |-> IF raised THEN EmptyMap ELSE offers.map,
         loans |-> IF raised THEN EmptyMap ELSE loans.map,
         status |-> IF raised THEN EmptyMap
                    ELSE GetFundingStatus(balances, offers.map, loans.map)]

\* raw batches: two well-formed records, alone or with one malformed record
\* at any position
InsertAt(list, i, x) == SubSeq(list, 1, i) \o <<x>> \o SubSeq(list, i + 1, Len(list))

WithOneMalformed(good, malformed) ==
    { InsertAt(good, i, m) : i \in 0..Len(good), m \in malformed }

\* wallets: 0.25 USD and 0.1 FIL in the funding wallet; malformed: no list,
\* a list too short, an amount that is no number
GoodWallets ==
    << RawWallet(TRUE, 5, "funding", "USD", TRUE, 250000000),
       RawWallet(TRUE, 5, "funding", "FIL", TRUE, 100000000) >>

MalformedWallets ==
    { RawWallet(FALSE, 0, "", "", FALSE, 0),
      RawWallet(TRUE, 2, "funding", "BTC", FALSE, 0),
      RawWallet(TRUE, 5, "funding", "BTC", FALSE, 0) }

WalletBatches == {<<>>, GoodWallets} \cup WithOneMalformed(GoodWallets, MalformedWallets)

\* offers and loans: 0.5 fUSD at 0.0001 a day (3.65 % APR) and 0.3 fFIL;
\* malformed: no list, a list too short, an amount that is no number
GoodOffers ==
    << RawOffer(TRUE, 22, "fUSD", TRUE, 500000000, TRUE, 10000),
       RawOffer(TRUE, 22, "fFIL", TRUE, 300000000, TRUE, 20000) >>

MalformedOffers ==
    { RawOffer(FALSE, 0, "", FALSE, 0, FALSE, 0),
      RawOffer(TRUE, 10, "fBTC", TRUE, 100000000, TRUE, 10000),
      RawOffer(TRUE, 22, "fBTC", FALSE, 0, TRUE, 10000) }

OfferBatches == {<<>>, GoodOffers} \cup WithOneMalformed(GoodOffers, MalformedOffers)

LoanBatches ==
    {<<>>, GoodOffers} \cup WithOneMalformed(GoodOffers, {RawOffer(FALSE, 0, "", FALSE, 0, FALSE, 0)})

Transports == {"ok", "http_error", "raises"}

CcxtOutcomes == {"raises", "funding", "info", "bare"}

----------------------------------------------------------------------------
(* monitor.py *)

NoSends == [c \in Currencies |-> 0]

\* no get_funding_status in flight: nothing read
NoFetch == [balances |-> EmptyMap, offers |-> EmptyMap, loans |-> EmptyMap]

\* config.MONITORED_FUNDS as config.py has it (empty: monitor all)
MONITORED_FUNDS == {}

\* variant: the status is kept whole whatever the list
FilterMonitoredAll(status) == status

\* monitor.py:77-79
FilterMonitored(status) ==
    LET monitored_currencies == config.MONITORED_FUNDS
    IN  IF monitored_currencies # {}
        THEN [k \in DOMAIN status \cap monitored_currencies |-> status[k]]
        ELSE status

\* the snapshot file: absent, complete with the status written, or partial
\* (opened for writing and truncated, the dump not finished)
AbsentFile == [kind |-> "absent", data |-> EmptyMap]

PartialFile == [kind |-> "partial", data |-> EmptyMap]

\* json.dump of the status (monitor.py:61): a float is written as repr()
\* prints it, an int in decimal, a string between quotes; the document keeps
\* the keys of each dict
JsonFloat(x, width) ==
    IF x < 0 THEN "-" \o FloatStr(-x, width) ELSE FloatStr(x, width)

JsonInt(n) == ToString(n)

JsonString(s) == "\"" \o s \o "\""

JsonOffers(list) ==
    [i \in 1..Len(list) |->
        [amount |-> JsonFloat(list[i].amount, 9),
         rate   |-> JsonFloat(list[i].rate, 3)]]

\* variant: the amounts are written with one decimal
JsonDumpRounded(status) ==
    [c \in DOMAIN status |->
        [ wallet_balance |-> JsonFloat(status[c].wallet_balance \div 100000000, 1),
          total_balance  |-> JsonFloat(status[c].total_balance \div 100000000, 1),
          offered_amount |-> JsonFloat(status[c].offered_amount \div 100000000, 1),
          loaned_amount  |-> JsonFloat(status[c].loaned_amount \div 100000000, 1),
          num_offers     |-> JsonInt(status[c].num_offers),
          num_loans      |-> JsonInt(status[c].num_loans),
          avg_offer_rate |-> JsonFloat(status[c].avg_offer_rate, 3),
          avg_loan_rate  |-> JsonFloat(status[c].avg_loan_rate, 3),
          lending_status |-> JsonString(status[c].lending_status),
          offers         |-> JsonOffers(status[c].offers),
          loans          |-> JsonOffers(status[c].loans) ]]

JsonDump(status) ==
    [c \in DOMAIN status |->
        [ wallet_balance |-> JsonFloat(status[c].wallet_balance, 9),
          total_balance  |-> JsonFloat(status[c].total_balance, 9),
          offered_amount |-> JsonFloat(status[c].offered_amount, 9),
          loaned_amount  |-> JsonFloat(status[c].loaned_amount, 9),
          num_offers     |-> JsonInt(status[c].num_offers),
          num_loans      |-> JsonInt(status[c].num_loans),
          avg_offer_rate |-> JsonFloat(status[c].avg_offer_rate, 3),
          avg_loan_rate  |-> JsonFloat(status[c].avg_loan_rate, 3),
          lending_status |-> JsonString(status[c].lending_status),
          offers         |-> JsonOffers(status[c].offers),
          loans          |-> JsonOffers(status[c].loans) ]]

\* json.load (monitor.py:50): the numbers and strings read back
DigitValue(ch) ==
    CASE ch = "0" -> 0 [] ch = "1" -> 1 [] ch = "2" -> 2 [] ch = "3" -> 3
      [] ch = "4" -> 4 [] ch = "5" -> 5 [] ch = "6" -> 6 [] ch = "7" -> 7
      [] ch = "8" -> 8 [] ch = "9" -> 9

RECURSIVE ParseInt(_)
ParseInt(text) ==
    IF text = "" THEN 0
    ELSE ParseInt(SubSeq(text, 1, Len(text) - 1)) * 10
             + DigitValue(SubSeq(text, Len(text), Len(text)))

ParseFloat(text, width) ==
    LET negative == StartsWith(text, "-")
        body == IF negative THEN DropFirst(text) ELSE text
        dot  == CHOOSE i \in 1..Len(body) : SubSeq(body, i, i) = "."
        frac == SubSeq(body, dot + 1, Len(body))
        x    == ParseInt(SubSeq(body, 1, dot - 1)) * Power10(width)
                    + ParseInt(frac) * Power10(width - Len(frac))
    IN  IF negative THEN 0 - x ELSE x

ParseString(text) == SubSeq(text, 2, Len(text) - 1)

ParseOffers(list) ==
    [i \in 1..Len(list) |->
        [amount |-> ParseFloat(list[i].amount, 9),
         rate   |-> ParseFloat(list[i].rate, 3)]]

JsonLoad(doc) ==
    [c \in DOMAIN doc |->
        [ wallet_balance |-> ParseFloat(doc[c].wallet_balance, 9),
          total_balance  |-> ParseFloat(doc[c].total_balance, 9),
          offered_amount |-> ParseFloat(doc[c].offered_amount, 9),
          loaned_amount  |-> ParseFloat(doc[c].loaned_amount, 9),
          num_offers     |-> ParseInt(doc[c].num_offers),
          num_loans      |-> ParseInt(doc[c].num_loans),
          avg_offer_rate |-> ParseFloat(doc[c].avg_offer_rate, 3),
          avg_loan_rate  |-> ParseFloat(doc[c].avg_loan_rate, 3),
          lending_status |-> ParseString(doc[c].lending_status),
          offers         |-> ParseOffers(doc[c].offers),
          loans          |-> ParseOffers(doc[c].loans) ]]

CompleteFile(status) == [kind |-> "complete", data |-> JsonDump(status)]

\* a snapshot file that open() refuses to read (a permission, a directory
\* of that name)
UnreadableFile(status) == [kind |-> "unreadable", data |-> JsonDump(status)]

\* variant: whatever the file holds is taken as the snapshot
LoadPreviousStatusUnguarded(f) == JsonLoad(f.data)

\* load_previous_status: the map read, {} when the file is absent or
\* json.load raises
LoadPreviousStatus(f) ==
    IF f.kind = "complete" THEN JsonLoad(f.data) ELSE EmptyMap

\* variant: a currency the snapshot does not hold counts as inactive
PreviousDefaultInactive ==
    [ lending_status |-> "inactive", wallet_balance |-> 0, offered_amount |-> 0,
      loaned_amount |-> 0, avg_offer_rate |-> 0, avg_loan_rate |-> 0 ]

\* monitor.py:83-90: the default of self.previous_status.get for a currency
\* the snapshot does not hold
PreviousDefault ==
    [ lending_status |-> "unknown", wallet_balance |-> 0, offered_amount |-> 0,
      loaned_amount |-> 0, avg_offer_rate |-> 0, avg_loan_rate |-> 0 ]

\* the previous entry of a currency
PreviousOf(snapshot, currency) ==
    IF currency \in DOMAIN snapshot THEN snapshot[currency] ELSE PreviousDefault

\* variant: only the rate of an active currency is compared
VerdictRateOnly(previous, status) ==
    IF previous.lending_status = "unknown" THEN "first"
    ELSE IF previous.lending_status # status.lending_status THEN "status"
    ELSE IF status.lending_status = "active"
            /\ RateDeltaExceeds(Round2(previous.avg_loan_rate),
                                Round2(status.avg_loan_rate))
    THEN "params"
    ELSE "none"

\* the verdict of check_for_changes on one currency (monitor.py:92-116):
\* "first" (never seen), "status" (the lending status changed), "params" (the
\* rate or the amount of an active currency changed) or "none"
Verdict(previous, status) ==
    IF previous.lending_status = "unknown" THEN "first"
    ELSE IF previous.lending_status # status.lending_status THEN "status"
    ELSE IF status.lending_status = "active"
    THEN LET old_rate   == Round2(previous.avg_loan_rate)
             new_rate   == Round2(status.avg_loan_rate)
             old_amount == Round8(previous.loaned_amount)
             new_amount == Round8(status.loaned_amount)
             rate_changed   == RateDeltaExceeds(old_rate, new_rate)
             amount_changed == AmountDeltaExceeds(old_amount, new_amount)
         IN  IF rate_changed \/ amount_changed THEN "params" ELSE "none"
    ELSE "none"

\* variant: a due job is started whether or not a cycle is in flight
CanStartCycleThreaded ==
    \/ pc = "init_check" /\ cpc = "idle"
    \/ pc = "loop" /\ elapsed >= 1

\* variant: run_pending() runs the job whether or not it is due
CanStartCycleEarly ==
    \/ pc = "init_check" /\ cpc = "idle"
    \/ pc = "loop" /\ cpc = "idle"

\* a cycle may start: the initial check of run(), or run_pending() called
\* from the scheduler loop with the job due; both run on the main thread,
\* which is not inside a cycle then
CanStartCycle ==
    \/ pc = "init_check" /\ cpc = "idle"
    \/ pc = "loop" /\ cpc = "idle" /\ elapsed >= 1

\* check_for_changes returns to run(): after the initial check the bot is
\* started next, after a scheduled one the job's next run is set
ReturnToRun ==
    IF pc = "init_check"
    THEN pc' = "bot_start" /\ UNCHANGED elapsed
    ELSE pc' = "loop" /\ elapsed' = 0

\* the main thread is inside check_for_changes at position p
At(p) == cpc = p /\ pc \in {"init_check", "loop"}

\* monitor.py:70-79: fetch and aggregate; an empty status is handled next
Fetch(inputs) ==
    /\ CanStartCycle
    /\ \E inp \in inputs :
         LET balances == Balances(inp)
             offers   == Offers(inp)
             loans    == Loans(inp)
             status   == GetFundingStatus(balances, offers, loans)
         IN  /\ fetched' = [balances |-> balances, offers |-> offers,
                            loans |-> loans]
             /\ IF status = EmptyMap
                THEN /\ current_status' = EmptyMap
                     /\ todo' = {}
                     /\ cpc' = "empty"
                ELSE /\ current_status' = FilterMonitored(status)
                     /\ todo' = DOMAIN FilterMonitored(status)
                     /\ cpc' = "diff"
    /\ notes' = {}
    /\ sends' = NoSends
    /\ running' = running + 1
    /\ elapsed' = 0
    /\ UNCHANGED <<pc, previous_status, file>>
    /\ UNCHANGED botVars

\* variant: an empty status is taken as the new snapshot
ReturnEmptyForgets ==
    /\ At("empty")
    /\ cpc' = "idle"
    /\ running' = running - 1
    /\ ReturnToRun
    /\ current_status' = EmptyMap
    /\ fetched' = NoFetch
    /\ todo' = {}
    /\ notes' = {}
    /\ sends' = NoSends
    /\ previous_status' = EmptyMap
    /\ UNCHANGED file
    /\ UNCHANGED botVars

\* monitor.py:70-79 with get_funding_status working from the raw responses:
\* what the exchange holds is one of exchanges, and each of the three
\* requests goes through or fails
FetchRaw(exchanges) ==
    /\ CanStartCycle
    /\ \E raw \in exchanges, ccxt \in {"raises", "funding"},
          tw \in Transports, to \in Transports, tl \in Transports :
         LET got == GetFundingStatusRaw(ccxt, raw,
                        [wallets |-> tw, offers |-> to, loans |-> tl])
             status == got.status
         IN  /\ fetched' = got
             /\ IF status = EmptyMap
                THEN /\ current_status' = EmptyMap
                     /\ todo' = {}
                     /\ cpc' = "empty"
                ELSE /\ current_status' = FilterMonitored(status)
                     /\ todo' = DOMAIN FilterMonitored(status)
                     /\ cpc' = "diff"
    /\ notes' = {}
    /\ sends' = NoSends
    /\ running' = running + 1
    /\ elapsed' = 0
    /\ UNCHANGED <<pc, previous_status, file>>
    /\ UNCHANGED botVars

\* monitor.py:72-74: the status is empty, a warning is logged and
\* check_for_changes returns
ReturnEmpty ==
    /\ At("empty")
    /\ cpc' = "idle"
    /\ running' = running - 1
    /\ ReturnToRun
    /\ current_status' = EmptyMap
    /\ fetched' = NoFetch
    /\ todo' = {}
    /\ notes' = {}
    /\ sends' = NoSends
    /\ UNCHANGED <<previous_status, file>>
    /\ UNCHANGED botVars

\* monitor.py:82-116: one iteration of the loop over current_status
Diff ==
    /\ At("diff")
    /\ todo # {}
    /\ \E currency \in todo : \E outcomes \in [Channels -> Outcomes] :
         LET status   == current_status[currency]
             previous == PreviousOf(previous_status, currency)
             verdict  == Verdict(previous, status)
             sent     == IF verdict \in {"status", "params"}
                         THEN NotifyLendingStatusChange(
                                  currency, previous, status, outcomes)
                         ELSE {}
         IN  /\ notes' = notes \cup sent
             /\ sends' = [sends EXCEPT ![currency] = @ + Cardinality(sent)]
             /\ todo' = todo \ {currency}
    /\ UNCHANGED <<pc, cpc, previous_status, current_status, fetched, file, elapsed, running>>
    /\ UNCHANGED botVars

\* variant: the snapshot is replaced before the loop has visited every currency
ReplaceBeforeDispatch ==
    /\ At("diff")
    /\ previous_status' = current_status
    /\ cpc' = "save"
    /\ UNCHANGED <<pc, current_status, fetched, todo, notes, sends, file, elapsed, running>>
    /\ UNCHANGED botVars

\* variant: the snapshot advances only when every notification was delivered
ReplaceIfDelivered ==
    /\ At("diff")
    /\ todo = {}
    /\ previous_status' = IF \A n \in notes : n.successful
                           THEN current_status ELSE previous_status
    /\ cpc' = "save"
    /\ UNCHANGED <<pc, current_status, fetched, todo, notes, sends, file, elapsed, running>>
    /\ UNCHANGED botVars

\* variant: the entries of currencies absent from the current status are kept
ReplaceKeepsAbsent ==
    /\ At("diff")
    /\ todo = {}
    /\ previous_status' =
          [c \in DOMAIN previous_status \cup DOMAIN current_status |->
              IF c \in DOMAIN current_status THEN current_status[c]
                                              ELSE previous_status[c]]
    /\ cpc' = "save"
    /\ UNCHANGED <<pc, current_status, fetched, todo, notes, sends, file, elapsed, running>>
    /\ UNCHANGED botVars

\* variant: the exception is raised when the snapshot has been replaced
CycleRaisesAfterReplace ==
    /\ At("diff")
    /\ todo # {}
    /\ cpc' = "raised"
    /\ previous_status' = current_status
    /\ UNCHANGED <<pc, current_status, fetched, todo, notes, sends, file, elapsed, running>>
    /\ UNCHANGED botVars

\* monitor.py:82-116, 129-130: an exception raised while a currency is
\* diffed (a round() or a .get on a previous entry that is no dict of
\* numbers, a template that does not format) leaves the loop for the except
\* clause of check_for_changes, which logs it; the currencies visited
\* before have had their notifications
CycleRaises ==
    /\ At("diff")
    /\ todo # {}
    /\ cpc' = "raised"
    /\ UNCHANGED <<pc, previous_status, current_status, fetched, todo, notes, sends, file,
                   elapsed, running>>
    /\ UNCHANGED botVars

\* monitor.py:130: the error is logged and check_for_changes returns
ReturnRaised ==
    /\ At("raised")
    /\ cpc' = "idle"
    /\ running' = running - 1
    /\ ReturnToRun
    /\ current_status' = EmptyMap
    /\ fetched' = NoFetch
    /\ todo' = {}
    /\ notes' = {}
    /\ sends' = NoSends
    /\ UNCHANGED <<previous_status, file>>
    /\ UNCHANGED botVars

\* variant: the snapshot advances only in a cycle that notified
ReplaceWhenNotified ==
    /\ At("diff")
    /\ todo = {}
    /\ previous_status' = IF notes # {} \/ previous_status = EmptyMap
                           THEN current_status ELSE previous_status
    /\ cpc' = "save"
    /\ UNCHANGED <<pc, current_status, fetched, todo, notes, sends, file, elapsed, running>>
    /\ UNCHANGED botVars

\* monitor.py:119: self.previous_status = current_status
Replace ==
    /\ At("diff")
    /\ todo = {}
    /\ previous_status' = current_status
    /\ cpc' = "save"
    /\ UNCHANGED <<pc, current_status, fetched, todo, notes, sends, file, elapsed, running>>
    /\ UNCHANGED botVars

\* variant: a write that fails takes the snapshot back to what the file holds
SaveOpenRollsBack(results) ==
    /\ At("save")
    /\ \E ok \in results :
         IF ok THEN file' = PartialFile /\ cpc' = "dump"
                    /\ previous_status' = previous_status
               ELSE file' = file /\ cpc' = "summary"
                    /\ previous_status' = LoadPreviousStatus(file)
    /\ UNCHANGED <<pc, current_status, fetched, todo, notes, sends, elapsed, running>>
    /\ UNCHANGED botVars

\* monitor.py:60: open(DATA_FILE, 'w') truncates the file; when it raises,
\* the error is logged and save_current_status returns
SaveOpen(results) ==
    /\ At("save")
    /\ \E ok \in results :
         IF ok THEN file' = PartialFile /\ cpc' = "dump"
               ELSE file' = file /\ cpc' = "summary"
    /\ UNCHANGED <<pc, previous_status, current_status, fetched, todo, notes, sends, elapsed, running>>
    /\ UNCHANGED botVars

\* monitor.py:61: json.dump writes the status; when it raises part-way, the
\* error is logged and the file keeps what was written so far
SaveDump(results) ==
    /\ At("dump")
    /\ \E ok \in results :
         file' = IF ok THEN CompleteFile(current_status) ELSE PartialFile
    /\ cpc' = "summary"
    /\ UNCHANGED <<pc, previous_status, current_status, fetched, todo, notes, sends, elapsed, running>>
    /\ UNCHANGED botVars

\* monitor.py:122-127: the summary is logged and check_for_changes returns
\* (its locals are gone)
EndCycle ==
    /\ At("summary")
    /\ cpc' = "idle"
    /\ running' = running - 1
    /\ ReturnToRun
    /\ current_status' = EmptyMap
    /\ fetched' = NoFetch
    /\ todo' = {}
    /\ notes' = {}
    /\ sends' = NoSends
    /\ UNCHANGED <<previous_status, file>>
    /\ UNCHANGED botVars

----------------------------------------------------------------------------
(* telegram_bot.py: start, run_bot, stop *)

\* the run_bot threads the model follows: the one start() creates, and a
\* second one for a start() that follows a stop() the first has outlived
WorkerIds == {1, 2}

\* cap on the polling failures a thread counts in a row
MaxFails == 3

\* telegram_bot.py:37-38
InitialDelay == 1

max_reconnect_delay == 300

NoWorkers == [w \in WorkerIds |-> "none"]

\* telegram_bot.py:510: exponential backoff with maximum delay
NextDelay(delay) == Min(delay * 2, max_reconnect_delay)

\* variant: a successful recreation keeps the delay
DelayAfterRecreateKept(delay) == delay

\* telegram_bot.py:517: the delay after the bot instance was recreated
DelayAfterRecreate(delay) == InitialDelay

\* TelegramBot.start: a no-op without a bot or when already running, else
\* the flags are set, the delay is reset and a run_bot thread is started
StartBot ==
    IF bot = "absent" \/ is_running
    THEN UNCHANGED botVars
    ELSE /\ \E w \in WorkerIds :
              /\ bpc[w] = "none"
              /\ bpc' = [bpc EXCEPT ![w] = "top"]
              /\ fails' = [fails EXCEPT ![w] = 0]
         /\ is_running' = TRUE
         /\ should_stop' = FALSE
         /\ reconnect_delay' = InitialDelay
         /\ last_recreate' = "none"
         /\ UNCHANGED <<config, environ, bot, last_cmd, farewell, spc, stop_req>>

\* run_bot, top of the loop (telegram_bot.py:486-498): leave when should_stop
\* is set, else send the startup message (best effort) and start polling
WorkerTop(w) ==
    /\ bpc[w] = "top"
    /\ IF should_stop
       THEN /\ bpc' = [bpc EXCEPT ![w] = "none"]
            /\ is_running' = FALSE
            /\ fails' = [fails EXCEPT ![w] = 0]
       ELSE /\ bpc' = [bpc EXCEPT ![w] = "polling"]
            /\ UNCHANGED <<is_running, fails>>
    /\ UNCHANGED <<config, environ, bot, last_cmd, farewell, should_stop, reconnect_delay, spc, stop_req, last_recreate>>
    /\ UNCHANGED monitorVars

\* infinity_polling receives updates: a listening period
PollListen(w) ==
    /\ bpc[w] = "polling"
    /\ fails[w] > 0
    /\ fails' = [fails EXCEPT ![w] = 0]
    /\ UNCHANGED <<config, environ, bot, last_cmd, farewell, is_running, should_stop, reconnect_delay, bpc, spc,
                   stop_req, last_recreate>>
    /\ UNCHANGED monitorVars

\* infinity_polling raises (telegram_bot.py:499-507): leave when should_stop
\* is set, else sleep reconnect_delay seconds
PollFail(w) ==
    /\ bpc[w] = "polling"
    /\ should_stop \/ fails[w] < MaxFails
    /\ IF should_stop
       THEN /\ bpc' = [bpc EXCEPT ![w] = "none"]
            /\ is_running' = FALSE
            /\ fails' = [fails EXCEPT ![w] = 0]
       ELSE /\ bpc' = [bpc EXCEPT ![w] = "sleeping"]
            /\ fails' = [fails EXCEPT ![w] = fails[w] + 1]
            /\ UNCHANGED is_running
    /\ stop_req' = stop_req \ {w}
    /\ UNCHANGED <<config, environ, bot, last_cmd, farewell, should_stop, reconnect_delay, spc, last_recreate>>
    /\ UNCHANGED monitorVars

\* infinity_polling returns after stop_polling: back to the top of the loop
PollReturn(w) ==
    /\ bpc[w] = "polling"
    /\ w \in stop_req
    /\ bpc' = [bpc EXCEPT ![w] = "top"]
    /\ stop_req' = stop_req \ {w}
    /\ UNCHANGED <<config, environ, bot, last_cmd, farewell, is_running, should_stop, reconnect_delay, spc, fails, last_recreate>>
    /\ UNCHANGED monitorVars

\* telegram_bot.py:507-510: the sleep ends and the delay is doubled
SleepEnd(w) ==
    /\ bpc[w] = "sleeping"
    /\ reconnect_delay' = NextDelay(reconnect_delay)
    /\ bpc' = [bpc EXCEPT ![w] = "recreate"]
    /\ last_recreate' = "none"
    /\ UNCHANGED <<config, environ, bot, last_cmd, farewell, is_running, should_stop, spc, stop_req, fails>>
    /\ UNCHANGED monitorVars

\* telegram_bot.py:513-520: recreate the bot instance; on success the delay
\* is reset, on failure the loop continues with the delay kept
Recreate(w) ==
    /\ bpc[w] = "recreate"
    /\ \E ok \in BOOLEAN :
         /\ reconnect_delay' = IF ok THEN DelayAfterRecreate(reconnect_delay)
                                     ELSE reconnect_delay
         /\ last_recreate' = IF ok THEN "ok" ELSE "failed"
    /\ bpc' = [bpc EXCEPT ![w] = "top"]
    /\ UNCHANGED <<config, environ, bot, last_cmd, farewell, is_running, should_stop, spc, stop_req, fails>>
    /\ UNCHANGED monitorVars

\* variant: a shutdown message that cannot be sent aborts stop()
StopSignalFarewellAborts ==
    /\ should_stop' = TRUE
    /\ \E sent \in BOOLEAN :
         /\ farewell' = IF sent THEN "sent" ELSE "failed"
         /\ stop_req' = IF sent THEN {w \in WorkerIds : bpc[w] = "polling"}
                                ELSE stop_req
         /\ spc' = IF sent THEN "join" ELSE spc
    /\ UNCHANGED <<config, environ, bot, last_cmd, is_running, reconnect_delay, bpc, fails, last_recreate>>

\* TelegramBot.stop up to the join (telegram_bot.py:531-548): should_stop is
\* set, the farewell is sent best effort, stop_polling is called
StopSignal ==
    /\ should_stop' = TRUE
    /\ \E sent \in BOOLEAN : farewell' = IF sent THEN "sent" ELSE "failed"
    /\ stop_req' = {w \in WorkerIds : bpc[w] = "polling"}
    /\ spc' = "join"
    /\ UNCHANGED <<config, environ, bot, last_cmd, is_running, reconnect_delay, bpc, fails, last_recreate>>

\* telegram_bot.py:551-554: the join returns (the thread ended, or 5 seconds
\* passed) and is_running is cleared
StopJoin ==
    /\ spc = "join"
    /\ spc' = "idle"
    /\ is_running' = FALSE
    /\ pc' = IF pc = "stopping" THEN "terminated" ELSE pc
    /\ UNCHANGED <<config, environ, bot, last_cmd, farewell, should_stop, reconnect_delay, bpc, stop_req, fails, last_recreate>>
    /\ UNCHANGED <<cpc, previous_status, current_status, fetched, todo, notes, sends, file,
                   elapsed, running>>

----------------------------------------------------------------------------
(* telegram_bot.py: the command handlers *)

\* TelegramBot.chat_id, and the chats a message can come from
CHAT_ID == "111"

Chats == {"111", "222"}

\* the commands with a handler; /status takes an optional currency
Commands == {"start", "help", "status", "active", "offered", "inactive", "rates"}

Args == {"", "usd", "xrp"}

Rejection == "Unauthorized access denied."

NoCommand ==
    [cmd |-> "none", chat |-> "", arg |-> "", at |-> "idle", fetches |-> {},
     replies |-> <<>>, lines |-> {}, logged |-> <<>>]

\* what a handler did: the calls into the exchange client, the texts sent,
\* the indicator lines of a /rates reply, the log records
Served(fetches, replies, logged) ==
    [fetches |-> fetches, replies |-> replies, lines |-> {}, logged |-> logged]

\* variant: any chat passes the check
IsAuthorizedAny(chat) == TRUE

\* str(message.chat.id) != self.chat_id, negated
IsAuthorized(chat) == chat = CHAT_ID

\* str.upper on the currency argument
Upper(arg) == IF arg = "usd" THEN "USD" ELSE IF arg = "xrp" THEN "XRP" ELSE arg

\* format(x, '.2f') of an amount (1e-9 units) and of a rate (thousandths of
\* a percent)
Fixed2(hundredths) ==
    ToString(hundredths \div 100) \o "." \o ZeroPad(ToString(hundredths % 100), 2)

Amount2f(amount) == Fixed2((amount + 5000000) \div 10000000)

Rate2f(rate) == Fixed2(Round2(rate))

\* the keys of a dict in the order a loop visits them (one order is taken:
\* the texts built in another order have the same lines)
RECURSIVE Ordered(_)
Ordered(keys) ==
    IF keys = {} THEN <<>>
    ELSE LET k == CHOOSE x \in keys : TRUE IN <<k>> \o Ordered(keys \ {k})

RECURSIVE SumOver(_, _, _)
SumOver(funding_status, keys, field) ==
    IF keys = {} THEN 0
    ELSE LET k == CHOOSE x \in keys : TRUE
         IN  Get(funding_status[k], field, 0)
                 + SumOver(funding_status, keys \ {k}, field)

RECURSIVE CountOver(_, _, _)
CountOver(funding_status, keys, field) ==
    IF keys = {} THEN 0
    ELSE LET k == CHOOSE x \in keys : TRUE
         IN  Len(Get(funding_status[k], field, <<>>))
                 + CountOver(funding_status, keys \ {k}, field)

\* In the texts below every emoji is written as one "#" per character that
\* len() counts; the three rate indicators are "+" (green circle), "o"
\* (white circle) and "-" (red circle).

\* telegram_bot.py:283-285 and 365-367
CutAbove == 4000

CutAt == 3950

TruncationMarker == "...\n\n(Message truncated due to length)"

\* variant: a long message is sent as it is
TruncateNever(message) == message

Truncate(message) ==
    IF Len(message) > CutAbove
    THEN SubSeq(message, 1, CutAt) \o TruncationMarker
    ELSE message

\* _send_overall_status (telegram_bot.py:164-197)
SendOverallStatus(funding_status) ==
    LET keys == DOMAIN funding_status
        active_loans == CountOver(funding_status, keys, "loans")
        offered == CountOver(funding_status, keys, "offers")
        inactive == Cardinality({k \in keys :
                        funding_status[k].lending_status = "inactive"})
        message ==
            "# *Bitfinex Funding Status*\n\n"
            \o "*Summary:*\n"
            \o "Active Loans: " \o ToString(active_loans) \o "\n"
            \o "Offered: " \o ToString(offered) \o "\n"
            \o "Inactive: " \o ToString(inactive) \o "\n\n"
            \o "*Balances:*\n"
            \o "Total Funds: "
            \o Amount2f(SumOver(funding_status, keys, "total_balance")) \o "\n"
            \o "Loaned: "
            \o Amount2f(SumOver(funding_status, keys, "loaned_amount")) \o "\n"
            \o "Offered: "
            \o Amount2f(SumOver(funding_status, keys, "offered_amount")) \o "\n"
            \o "In Wallet: "
            \o Amount2f(SumOver(funding_status, keys, "wallet_balance")) \o "\n\n"
            \o "Use /status [currency] for details on specific currency"
    IN  Served({"get_funding_status"},
               IF funding_status = EmptyMap
               THEN <<"No funding data available.">>
               ELSE <<message>>, <<>>)

\* one loan or offer of a reply: "i. amount @ rate% APR (period days)", with
\* the creation date when with_date and created_at is set (strftime gives 16
\* characters, whose digits are not modelled)
EntryLine(indent, i, entry, with_date) ==
    LET period == Get(entry, "period", 0)
        period_display == IF period > 0 THEN ToString(period) ELSE "Unknown"
        created_time == Get(entry, "created_at", 0)
    IN  indent \o ToString(i) \o ". " \o Amount2f(Get(entry, "amount", 0))
            \o " @ " \o Rate2f(Get(entry, "rate", 0)) \o "% APR ("
            \o period_display \o " days)"
            \o (IF with_date /\ created_time # 0
                THEN " - " \o "0000-00-00 00:00" ELSE "")
            \o "\n"

\* the lines of the entries i..j, in order
RECURSIVE EntryLinesIn(_, _, _, _, _)
EntryLinesIn(indent, entries, i, j, with_date) ==
    IF i > j THEN ""
    ELSE IF i = j THEN EntryLine(indent, i, entries[i], with_date)
    ELSE LET mid == (i + j) \div 2
         IN  EntryLinesIn(indent, entries, i, mid, with_date)
                 \o EntryLinesIn(indent, entries, mid + 1, j, with_date)

EntryLines(indent, entries, i, with_date) ==
    EntryLinesIn(indent, entries, i, Len(entries), with_date)

\* str.capitalize of a lending status
Capitalize(lending_status) ==
    IF lending_status = "active" THEN "Active"
    ELSE IF lending_status = "offered" THEN "Offered"
    ELSE "Inactive"

\* _send_currency_status (telegram_bot.py:199-287)
SendCurrencyStatus(funding_status, currency) ==
    IF funding_status = EmptyMap \/ currency \notin DOMAIN funding_status
    THEN Served({"get_funding_status"},
                <<"No data available for " \o currency>>, <<>>)
    ELSE
    LET status == funding_status[currency]
        lending_status == status.lending_status
        head ==
            "# *" \o currency \o " Funding Status* #\n\n"
            \o "*Status:* " \o Capitalize(lending_status) \o "\n\n"
            \o "*Balances:*\n"
            \o "Total: " \o Amount2f(status.total_balance) \o " " \o currency \o "\n"
            \o "In Wallet: " \o Amount2f(status.wallet_balance) \o " " \o currency \o "\n"
            \o "Offered: " \o Amount2f(status.offered_amount) \o " " \o currency \o "\n"
            \o "Loaned: " \o Amount2f(status.loaned_amount) \o " " \o currency \o "\n\n"
        loans_part ==
            IF lending_status = "active"
            THEN "*Active Loans:*\n"
                 \o (IF status.loans # <<>>
                     THEN EntryLines("", status.loans, 1, TRUE)
                     ELSE "No individual loan data available\n")
                 \o "\n"
            ELSE ""
        offers_part ==
            IF lending_status = "offered"
            THEN "*Active Offers:*\n"
                 \o (IF status.offers # <<>>
                     THEN EntryLines("", status.offers, 1, TRUE)
                     ELSE "No individual offer data available\n")
            ELSE ""
    IN  Served({"get_funding_status"},
               <<Truncate(head \o loans_part \o offers_part)>>, <<>>)

\* the part of a filtered reply for one currency (telegram_bot.py:322-363)
FilteredPart(status_filter, currency, data) ==
    "*" \o currency \o "*:\n"
    \o (IF status_filter = "active"
        THEN IF data.loans # <<>>
             THEN EntryLines("  ", data.loans, 1, FALSE)
             ELSE "  No individual loan data available\n"
        ELSE IF status_filter = "offered"
        THEN IF data.offers # <<>>
             THEN EntryLines("  ", data.offers, 1, FALSE)
             ELSE "  No individual offer data available\n"
        ELSE "  " \o Amount2f(data.wallet_balance) \o " in wallet\n")
    \o "\n"

RECURSIVE FilteredParts(_, _, _, _)
FilteredParts(status_filter, funding_status, order, i) ==
    IF i > Len(order) THEN ""
    ELSE FilteredPart(status_filter, order[i], funding_status[order[i]])
             \o FilteredParts(status_filter, funding_status, order, i + 1)

\* _send_filtered_status (telegram_bot.py:289-369)
SendFilteredStatus(funding_status, status_filter) ==
    LET filtered_currencies ==
            {curr \in DOMAIN funding_status :
                funding_status[curr].lending_status = status_filter}
        title == IF status_filter = "active" THEN "# *Active Loans*\n\n"
                 ELSE IF status_filter = "offered" THEN "# *Offered Funds*\n\n"
                 ELSE "# *Inactive Funds*\n\n"
        message == title \o FilteredParts(status_filter, funding_status,
                                          Ordered(filtered_currencies), 1)
    IN  Served({"get_funding_status"},
               IF funding_status = EmptyMap
               THEN <<"No funding data available.">>
               ELSE IF filtered_currencies = {}
               THEN <<"No " \o status_filter \o " funding positions found.">>
               ELSE <<Truncate(message)>>, <<>>)

\* get_market_lending_rates finds no rate and returns {}
NoTicker == [frr_rate |-> -1]

\* what the ticker gives for a currency, as APR in thousandths of a percent
Ticker(frr, bid, ask) ==
    [frr_rate |-> frr, bid_rate |-> bid, ask_rate |-> ask,
     high_rate |-> ask, low_rate |-> bid]

Tickers ==
    { Ticker(0, 0, 0), Ticker(3000, 2000, 3500), Ticker(4000, 3000, 4200),
      Ticker(4200, 3000, 5500), Ticker(6000, 4500, 7000),
      Ticker(8000, 7000, 9000) }

\* get_market_lending_rates(currencies_to_check)
MarketRates(ticker, currencies_to_check) ==
    IF ticker = NoTicker THEN EmptyMap
    ELSE [c \in currencies_to_check |-> ticker]

\* telegram_bot.py:413-418
LoanIndicator(user_rate, market_rate, bid_rate) ==
    IF user_rate >= market_rate THEN "+"
    ELSE IF user_rate >= bid_rate THEN "o"
    ELSE "-"

\* telegram_bot.py:437-442
OfferIndicator(user_rate, market_rate, ask_rate) ==
    IF user_rate <= market_rate THEN "+"
    ELSE IF user_rate <= ask_rate THEN "o"
    ELSE "-"

\* variant: the rate of the user is the average the aggregator computed
UserRateAggregated(status, section) ==
    IF section = "loans" THEN status.avg_loan_rate ELSE status.avg_offer_rate

\* telegram_bot.py:405 and 429: status.get('avg_rate', 0) for a loan line,
\* status.get('offered_rate', 0) for an offer line
UserRate(status, section) ==
    IF section = "loans" THEN Get(status, "avg_rate", 0)
    ELSE Get(status, "offered_rate", 0)

RateIndicator(status, section, rates) ==
    IF section = "loans"
    THEN LoanIndicator(UserRate(status, section), rates.frr_rate, rates.bid_rate)
    ELSE OfferIndicator(UserRate(status, section), rates.frr_rate, rates.ask_rate)

MarketPart(rates) ==
    "Market: " \o Rate2f(rates.frr_rate) \o "% | Range: "
    \o Rate2f(rates.bid_rate) \o "%-" \o Rate2f(rates.ask_rate) \o "% | 24h: "
    \o Rate2f(rates.low_rate) \o "%-" \o Rate2f(rates.high_rate) \o "%\n"

\* telegram_bot.py:420 and 444
RateLineOf(status, section, currency, rates) ==
    RateIndicator(status, section, rates) \o " *" \o currency
    \o "*: Your rate: " \o Rate2f(UserRate(status, section)) \o "% | "
    \o MarketPart(rates)

RECURSIVE RateLines(_, _, _, _, _)
RateLines(funding_status, section, order, market_rates, i) ==
    IF i > Len(order) THEN ""
    ELSE (IF order[i] \in DOMAIN market_rates
          THEN RateLineOf(funding_status[order[i]], section, order[i],
                          market_rates[order[i]])
          ELSE "")
         \o RateLines(funding_status, section, order, market_rates, i + 1)

RECURSIVE DefaultLines(_, _, _)
DefaultLines(order, market_rates, i) ==
    IF i > Len(order) THEN ""
    ELSE (IF order[i] \in DOMAIN market_rates
          THEN "*" \o order[i] \o "*: FRR: "
               \o Rate2f(market_rates[order[i]].frr_rate) \o "% | Range: "
               \o Rate2f(market_rates[order[i]].bid_rate) \o "%-"
               \o Rate2f(market_rates[order[i]].ask_rate) \o "% | 24h: "
               \o Rate2f(market_rates[order[i]].low_rate) \o "%-"
               \o Rate2f(market_rates[order[i]].high_rate) \o "%\n"
          ELSE "")
         \o DefaultLines(order, market_rates, i + 1)

\* _send_market_rates (telegram_bot.py:371-468); ticker: what
\* get_market_lending_rates finds for each currency it is asked
SendMarketRates(funding_status, ticker) ==
    LET active_currencies ==
            {curr \in DOMAIN funding_status :
                funding_status[curr].lending_status = "active"}
        offered_currencies ==
            {curr \in DOMAIN funding_status :
                funding_status[curr].offered_amount > 0}
        listed == active_currencies \cup offered_currencies
        currencies_to_check == IF listed = {} THEN {"USD", "UST"} ELSE listed
        notice ==
            IF listed = {}
            THEN <<"## No active loans or offers found. Showing rates for USD and USDT.">>
            ELSE <<>>
        market_rates == MarketRates(ticker, currencies_to_check)
        message ==
            "# *Current Lending Rates*\n\n"
            \o (IF active_currencies # {}
                THEN "*Active Loans*\n"
                     \o RateLines(funding_status, "loans",
                                  Ordered(active_currencies), market_rates, 1)
                     \o "\n"
                ELSE "")
            \o (IF offered_currencies # {}
                THEN "*Offered Funds*\n"
                     \o RateLines(funding_status, "offers",
                                  Ordered(offered_currencies), market_rates, 1)
                     \o "\n"
                ELSE "")
            \o (IF listed = {}
                THEN "*Market Rates*\n"
                     \o DefaultLines(Ordered(currencies_to_check), market_rates, 1)
                ELSE "\n*Rate Indicators*:\n"
                     \o "+ - Your rate is better than market\n"
                     \o "o - Your rate is average\n"
                     \o "- - Your rate is below market\n")
        LinesOf(section, currencies) ==
            { [section |-> section, currency |-> c,
               indicator |-> RateIndicator(funding_status[c], section,
                                           market_rates[c]),
               own_rate |-> UserRateAggregated(funding_status[c], section),
               rates |-> market_rates[c]] :
                 c \in DOMAIN market_rates \cap currencies }
        lines == LinesOf("loans", active_currencies)
                     \cup LinesOf("offers", offered_currencies)
    IN  IF market_rates = EmptyMap
        THEN Served({"get_funding_status", "get_market_lending_rates"},
                    notice \o <<"# Failed to retrieve market rates. Please try again later.">>,
                    <<>>)
        ELSE [fetches |-> {"get_funding_status", "get_market_lending_rates"},
              replies |-> notice \o <<message>>,
              lines |-> lines,
              logged |-> <<>>]

\* the text a data handler sends when its call raised (the exception's own
\* text, appended after the colon, is left out)
ErrorText(cmd) ==
    IF cmd = "status" THEN "Error getting funding status"
    ELSE IF cmd = "active" THEN "Error getting active loans"
    ELSE IF cmd = "offered" THEN "Error getting offered funds"
    ELSE IF cmd = "inactive" THEN "Error getting inactive funds"
    ELSE "Error getting market rates"

\* the size above which Telegram refuses a message (telegram_bot.py:283)
TelegramLimit == 4096

\* the first text of the call that Telegram refuses, 0 when it takes all
RECURSIVE FirstRefused(_, _)
FirstRefused(replies, i) ==
    IF i > Len(replies) THEN 0
    ELSE IF Len(replies[i]) > TelegramLimit THEN i
    ELSE FirstRefused(replies, i + 1)

\* what was sent before the call raised: the exception comes from the last
\* send of the call (or from what precedes it), the earlier ones went out
SentBefore(served) ==
    IF served.replies = <<>> THEN <<>>
    ELSE SubSeq(served.replies, 1, Len(served.replies) - 1)

\* variant: the exception is logged and nothing is sent
GuardedSilent(cmd, served, raises) ==
    IF raises
    THEN Served(served.fetches, SentBefore(served), <<"error">>)
    ELSE served

\* the body of a data handler under its try/except: when the call raises,
\* the error is logged and the error text is sent; send_message raises for
\* a text Telegram refuses
Guarded(cmd, served, raises) ==
    IF raises
    THEN Served(served.fetches, SentBefore(served) \o <<ErrorText(cmd)>>,
                <<"error">>)
    ELSE IF FirstRefused(served.replies, 1) # 0
    THEN Served(served.fetches,
                SubSeq(served.replies, 1, FirstRefused(served.replies, 1) - 1)
                    \o <<ErrorText(cmd)>>,
                <<"error: message is too long">>)
    ELSE served

HelpText ==
    "Bitfinex Funding Monitor Bot\n\n"
    \o "Available commands:\n"
    \o "/status - Show overall funding status\n"
    \o "/status [currency] - Show funding status for specific currency\n"
    \o "/active - Show active loans\n"
    \o "/offered - Show offered funds\n"
    \o "/inactive - Show inactive funds\n"
    \o "/rates - Show current market lending rates for active currencies\n"
    \o "/help - Show this help message"

\* the handler registered for the command (telegram_bot.py:73-162)
Handle(cmd, chat, arg, funding_status, ticker, raises) ==
    IF ~IsAuthorized(chat)
    THEN Served({}, <<Rejection>>,
                IF cmd \in {"start", "help"}
                THEN <<"Unauthorized access attempt">> ELSE <<>>)
    ELSE IF cmd \in {"start", "help"} THEN Served({}, <<HelpText>>, <<>>)
    ELSE IF cmd = "status"
    THEN Guarded(cmd, IF arg # ""
                      THEN SendCurrencyStatus(funding_status, Upper(arg))
                      ELSE SendOverallStatus(funding_status), raises)
    ELSE IF cmd = "rates"
    THEN Guarded(cmd, SendMarketRates(funding_status, ticker), raises)
    ELSE Guarded(cmd, SendFilteredStatus(funding_status, cmd), raises)

\* every message with a command that can arrive, with what its handler
\* does when get_funding_status gives it one of statuses
Handled(statuses) ==
    UNION { { [cmd |-> cmd, chat |-> chat, arg |-> arg,
               funding_status |-> funding_status,
               served |-> Handle(cmd, chat, arg, funding_status, ticker, raises)] :
                 arg \in (IF cmd = "status" THEN Args ELSE {""}),
                 ticker \in (IF cmd = "rates" THEN Tickers \cup {NoTicker}
                                              ELSE {NoTicker}),
                 raises \in (IF cmd \in {"start", "help"} THEN {FALSE}
                                                          ELSE BOOLEAN) } :
            cmd \in Commands, chat \in Chats, funding_status \in statuses }

\* the statuses get_funding_status compiles from what the exchange returns
StatusesOf(inputs) ==
    { GetFundingStatus(Balances(inp), Offers(inp), Loans(inp)) : inp \in inputs }

CoarseHandled == Handled(StatusesOf(CoarseInputs))

\* variant: the handler also keeps what it fetched as the monitor's snapshot
HandleCommandKeeps(handled) ==
    /\ bot = "ready"
    /\ \E w \in WorkerIds : bpc[w] = "polling"
    /\ \E h \in handled :
         /\ last_cmd' = [cmd |-> h.cmd, chat |-> h.chat, arg |-> h.arg,
                         at |-> cpc,
                         fetches |-> h.served.fetches,
                         replies |-> h.served.replies,
                         lines |-> h.served.lines,
                         logged |-> h.served.logged]
         /\ previous_status' = IF h.served.fetches = {}
                               THEN previous_status ELSE h.funding_status
    /\ UNCHANGED <<config, environ, bot, is_running, should_stop, reconnect_delay, bpc, spc,
                   stop_req, farewell, fails, last_recreate>>
    /\ UNCHANGED <<pc, cpc, current_status, fetched, todo, notes, sends, file,
                   elapsed, running>>

\* a message with a command arrives while a thread is polling, and its
\* handler runs (telegram_bot.py:73-162): one of handled
HandleCommandOn(handled) ==
    /\ bot = "ready"
    /\ \E w \in WorkerIds : bpc[w] = "polling"
    /\ \E h \in handled :
         last_cmd' = [cmd |-> h.cmd, chat |-> h.chat, arg |-> h.arg,
                      at |-> cpc,
                      fetches |-> h.served.fetches,
                      replies |-> h.served.replies,
                      lines |-> h.served.lines,
                      logged |-> h.served.logged]
    /\ UNCHANGED <<config, environ, bot, is_running, should_stop, reconnect_delay, bpc, spc,
                   stop_req, farewell, fails, last_recreate>>
    /\ UNCHANGED monitorVars

HandleCommand == HandleCommandOn(CoarseHandled)

\* start() and stop() called on a TelegramBot by its owner
BotStart ==
    /\ pc = "detached"
    /\ spc = "idle"
    /\ ~is_running
    /\ StartBot
    /\ UNCHANGED monitorVars

BotStop ==
    /\ pc = "detached"
    /\ spc = "idle"
    /\ is_running
    /\ StopSignal
    /\ UNCHANGED monitorVars

----------------------------------------------------------------------------
(* monitor.py: run, and the life of the process *)

\* cap on the intervals counted since the job started or was scheduled
MaxElapsed == 2

\* monitor.py:139-147: the bot is started when there is one, and the job is
\* scheduled one interval from now
RunStartBot ==
    /\ pc = "bot_start"
    /\ StartBot
    /\ pc' = "loop"
    /\ elapsed' = 0
    /\ UNCHANGED <<cpc, previous_status, current_status, fetched, todo, notes, sends, file, running>>

\* one more interval has passed, while the loop sleeps or while a cycle runs
\* (the cycle then overruns the interval)
Tick ==
    /\ pc = "loop"
    /\ elapsed < MaxElapsed
    /\ elapsed' = elapsed + 1
    /\ UNCHANGED <<pc, cpc, previous_status, current_status, fetched, todo, notes, sends, file, running>>
    /\ UNCHANGED botVars

\* the main thread leaves run(): what it held in memory is gone, the file
\* stays as it is, cpc keeps the position at which a cycle in flight was left
ProcessEnds ==
    /\ previous_status' = EmptyMap
    /\ current_status' = EmptyMap
    /\ fetched' = NoFetch
    /\ todo' = {}
    /\ notes' = {}
    /\ sends' = NoSends
    /\ elapsed' = 0
    /\ running' = 0
    /\ UNCHANGED <<cpc, file>>

\* KeyboardInterrupt in the main thread.  check_for_changes and
\* save_current_status catch Exception only, so it ends a cycle in flight
\* where it is.  Inside the scheduler loop run() catches it and stops the bot when one is running
\* (monitor.py:154-157); before the loop main() catches it (main.py:33-34).
Interrupt ==
    /\ pc \in {"init_check", "bot_start", "loop"}
    /\ IF pc = "loop" /\ bot # "absent" /\ is_running
       THEN StopSignal /\ pc' = "stopping"
       ELSE UNCHANGED botVars /\ pc' = "terminated"
    /\ ProcessEnds

\* the process is killed or the machine goes down
Crash ==
    /\ pc \in {"init_check", "bot_start", "loop"}
    /\ pc' = "crashed"
    /\ ProcessEnds
    /\ UNCHANGED botVars

\* the program is started again: FundingMonitor.__init__ (monitor.py:33-43)
\* loads the snapshot file, run() begins with the initial check
Boot ==
    /\ pc \in {"terminated", "crashed"}
    /\ previous_status' = LoadPreviousStatus(file)
    /\ pc' = "init_check"
    /\ cpc' = "idle"
    /\ current_status' = EmptyMap
    /\ fetched' = NoFetch
    /\ todo' = {}
    /\ notes' = {}
    /\ sends' = NoSends
    /\ elapsed' = 0
    /\ running' = 0
    /\ UNCHANGED file
    /\ UNCHANGED botVars

\* the two credentials main.py and BitfinexAPI.__init__ ask for
Credentials == {"BITFINEX_API_KEY", "BITFINEX_API_SECRET"}

\* variant: only the API key is asked for
MainEntryKeyOnly ==
    /\ pc = "entry"
    /\ IF "BITFINEX_API_KEY" \in environ
       THEN /\ pc' = "init_check"
            /\ previous_status' = LoadPreviousStatus(file)
            /\ bot' \in {"absent", "ready"}
       ELSE /\ pc' = "exit_1"
            /\ UNCHANGED <<previous_status, bot>>
    /\ UNCHANGED <<cpc, current_status, fetched, todo, notes, sends, file, elapsed,
                   running, config, environ, is_running, should_stop, reconnect_delay, bpc,
                   spc, stop_req, farewell, last_cmd, fails, last_recreate>>

\* main.py:14-37: without the API key or the API secret the guidance is
\* printed and sys.exit(1) is called before monitor is imported; else the
\* FundingMonitor is constructed (monitor.py:33-43: the exchange client, the
\* notifier, the snapshot loaded, the bot when Telegram has credentials) and
\* run() is called
MainEntry ==
    /\ pc = "entry"
    /\ IF Credentials \subseteq environ
       THEN /\ pc' = "init_check"
            /\ previous_status' = LoadPreviousStatus(file)
            /\ bot' \in {"absent", "ready"}
       ELSE /\ pc' = "exit_1"
            /\ UNCHANGED <<previous_status, bot>>
    /\ UNCHANGED <<cpc, current_status, fetched, todo, notes, sends, file, elapsed,
                   running, config, environ, is_running, should_stop, reconnect_delay, bpc,
                   spc, stop_req, farewell, last_cmd, fails, last_recreate>>

----------------------------------------------------------------------------
(* Specifications *)

InitBot(b) ==
    /\ config = [MONITORED_FUNDS |-> MONITORED_FUNDS]
    /\ environ = Credentials
    /\ bot = b
    /\ is_running = FALSE
    /\ should_stop = FALSE
    /\ reconnect_delay = InitialDelay
    /\ bpc = NoWorkers
    /\ spc = "idle"
    /\ stop_req = {}
    /\ farewell = "none"
    /\ last_cmd = NoCommand
    /\ fails = [w \in WorkerIds |-> 0]
    /\ last_recreate = "none"

\* FundingMonitor.__init__ with the snapshot file f on the disk
InitMonitorFrom(p, f) ==
    /\ pc = p
    /\ cpc = "idle"
    /\ previous_status = LoadPreviousStatus(f)
    /\ current_status = EmptyMap
    /\ fetched = NoFetch
    /\ todo = {}
    /\ notes = {}
    /\ sends = NoSends
    /\ file = f
    /\ elapsed = 0
    /\ running = 0

InitMonitor(p) == InitMonitorFrom(p, AbsentFile)

\* the program started without Telegram credentials (telegram_bot is None),
\* first run (no snapshot file)
Init == InitMonitor("init_check") /\ InitBot("absent")

Next ==
    \/ Fetch(CoarseInputs)
    \/ ReturnEmpty
    \/ Diff
    \/ Replace
    \/ SaveOpen(BOOLEAN)
    \/ SaveDump(BOOLEAN)
    \/ EndCycle
    \/ RunStartBot
    \/ Tick
    \/ Interrupt
    \/ Crash
    \/ Boot

Spec == Init /\ [][Next]_vars

\* the poll cycles alone, over the larger input set, every write succeeding
NextDiff ==
    \/ Fetch(RichInputs)
    \/ ReturnEmpty
    \/ Diff
    \/ Replace
    \/ SaveOpen({TRUE})
    \/ SaveDump({TRUE})
    \/ EndCycle
    \/ RunStartBot
    \/ Tick

SpecDiff == Init /\ [][NextDiff]_vars

\* the poll cycles alone, over offers and loans of every sign
NextSigns ==
    \/ Fetch(SignInputs)
    \/ ReturnEmpty
    \/ Diff
    \/ Replace
    \/ SaveOpen({TRUE})
    \/ SaveDump({TRUE})
    \/ EndCycle
    \/ RunStartBot
    \/ Tick

SpecSigns == Init /\ [][NextSigns]_vars

\* a TelegramBot on its own, started and stopped by its owner
InitBotAlone == InitMonitor("detached") /\ InitBot("ready")

NextBot ==
    \/ BotStart
    \/ BotStop
    \/ StopJoin
    \/ \E w \in WorkerIds :
         \/ WorkerTop(w)
         \/ PollListen(w)
         \/ PollFail(w)
         \/ PollReturn(w)
         \/ SleepEnd(w)
         \/ Recreate(w)

SpecBot == InitBotAlone /\ [][NextBot]_vars

\* send_notification on its own: called with a message under every
\* configuration of enabled channels and every outcome of each channel
AllChannels == {ChannelOrder[i] : i \in DOMAIN ChannelOrder}

SendDirect ==
    /\ pc = "detached"
    /\ \E enabled \in SUBSET AllChannels : \E outcomes \in [enabled -> Outcomes] :
         LET done == SendLoop(ChannelOrder, outcomes, NotAttempted)
         IN  notes' = {[currency   |-> "",
                        title      |-> "title",
                        message    |-> "message",
                        successful |-> SendNotification(outcomes),
                        attempted  |-> done.attempted,
                        outcomes   |-> outcomes]}
    /\ UNCHANGED <<pc, cpc, previous_status, current_status, fetched, todo, sends, file,
                   elapsed, running>>
    /\ UNCHANGED botVars

NextSend == SendDirect

SpecSend == InitMonitor("detached") /\ InitBot("absent") /\ [][NextSend]_vars

\* get_funding_status called on its own, for every raw response of the
\* three requests and every outcome of their transport
GetFundingStatusCall ==
    /\ pc = "detached"
    /\ fetched = NoFetch
    /\ \E ccxt \in CcxtOutcomes, wallets \in WalletBatches,
          offers \in OfferBatches, loans \in LoanBatches,
          tw \in Transports, to \in Transports, tl \in Transports :
         fetched' = GetFundingStatusRaw(ccxt,
                        [wallets |-> wallets, offers |-> offers, loans |-> loans],
                        [wallets |-> tw, offers |-> to, loans |-> tl])
    /\ UNCHANGED <<pc, cpc, previous_status, current_status, todo, notes, sends,
                   file, elapsed, running>>
    /\ UNCHANGED botVars

\* the caller is done with the status
GetFundingStatusReturn ==
    /\ pc = "detached"
    /\ fetched # NoFetch
    /\ fetched' = NoFetch
    /\ UNCHANGED <<pc, cpc, previous_status, current_status, todo, notes, sends,
                   file, elapsed, running>>
    /\ UNCHANGED botVars

NextParse ==
    \/ GetFundingStatusCall
    \/ GetFundingStatusReturn

SpecParse == InitMonitor("detached") /\ InitBot("absent") /\ [][NextParse]_vars

\* a TelegramBot on its own, serving commands while it polls
NextCommands ==
    \/ BotStart
    \/ BotStop
    \/ StopJoin
    \/ HandleCommand
    \/ \E w \in WorkerIds :
         \/ WorkerTop(w)
         \/ PollReturn(w)

SpecCommands == InitBotAlone /\ [][NextCommands]_vars

\* the exchange returns no balance, offer or loan
NoFunds == {[c \in Currencies |-> PerCurrency(0, <<>>, <<>>)]}

\* the program started with Telegram credentials and an account without
\* funds: the bot is started after the initial check and stopped by the
\* handler of KeyboardInterrupt in run().  A run_bot thread that can take a
\* step takes it, and the join of stop() returns.
InitWithBot == InitMonitor("init_check") /\ InitBot("ready")

NextStop ==
    \/ Fetch(NoFunds)
    \/ ReturnEmpty
    \/ RunStartBot
    \/ Tick
    \/ Interrupt
    \/ StopJoin
    \/ \E w \in WorkerIds :
         \/ WorkerTop(w)
         \/ PollListen(w)
         \/ PollFail(w)
         \/ PollReturn(w)
         \/ SleepEnd(w)
         \/ Recreate(w)

FairStop ==
    /\ WF_vars(StopJoin)
    /\ \A w \in WorkerIds :
         /\ WF_vars(WorkerTop(w))
         /\ WF_vars(PollReturn(w))
         /\ WF_vars(SleepEnd(w))
         /\ WF_vars(Recreate(w))

SpecStop == InitWithBot /\ [][NextStop]_vars /\ FairStop

\* USD alone: nothing, or a loan
ServeInputs ==
    { [c \in Currencies |->
          IF c = "USD" THEN case ELSE PerCurrency(0, <<>>, <<>>)] :
        case \in { PerCurrency(0, <<>>, <<>>),
                   PerCurrency(0, <<>>, <<Loan500>>) } }

ServeHandled == Handled(StatusesOf(ServeInputs))

\* the most records one fetch of offers or of loans asks for
\* (bitfinex_api.py:228, 304: "limit": 100)
MaxRecords == 100

\* the most currencies of a large account
MaxCurrencies == 30

\* an offer or a loan with the fields the replies print
FullOffer(amount, rate, period, created_at) ==
    [amount |-> amount, rate |-> rate, period |-> period,
     created_at |-> created_at]

\* 0.02 at 12.35 % for 120 days, with a creation time
LargeOffer == FullOffer(20000000, 12345, 120, 1)

Repeat(x, n) == [i \in 1..n |-> x]

\* n currency codes, USD among them
Names(n) == {"USD"} \cup {"C" \o ToString(i) : i \in 2..n}

\* the status of an account with n currencies, each with k loans, k offers
\* or both
Portfolio(n, k, kind) ==
    LET records == [c \in Names(n) |-> Repeat(LargeOffer, k)]
    IN  GetFundingStatus(EmptyMap,
                         IF kind \in {"offers", "both"} THEN records ELSE EmptyMap,
                         IF kind \in {"loans", "both"} THEN records ELSE EmptyMap)

\* small and large accounts: one currency with one record or with as many
\* as a fetch returns, and many currencies with one record each
LargeStatuses ==
    { Portfolio(nk[1], nk[2], kind) :
        nk \in {<<1, 1>>, <<1, MaxRecords>>, <<MaxCurrencies, 1>>},
        kind \in {"loans", "offers", "both"} }

LargeHandled == Handled(LargeStatuses \cup {EmptyMap})

\* a bot serving the commands of small and large accounts
NextReplies ==
    \/ BotStart
    \/ HandleCommandOn(LargeHandled)
    \/ \E w \in WorkerIds : WorkerTop(w)

SpecReplies == InitBotAlone /\ [][NextReplies]_vars


\* the program with its bot: poll cycles and commands interleave
NextServe ==
    \/ Fetch(ServeInputs)
    \/ ReturnEmpty
    \/ Diff
    \/ Replace
    \/ SaveOpen({TRUE})
    \/ SaveDump({TRUE})
    \/ EndCycle
    \/ RunStartBot
    \/ Tick
    \/ HandleCommandOn(ServeHandled)
    \/ \E w \in WorkerIds : WorkerTop(w)

SpecServe == InitWithBot /\ [][NextServe]_vars

\* the program started on whatever snapshot file is on the disk: none, one
\* cut short, one that cannot be read, a complete one
StartupInputs ==
    { [c \in Currencies |->
          IF c = "USD" THEN case ELSE PerCurrency(0, <<>>, <<>>)] :
        case \in { PerCurrency(0, <<>>, <<>>),
                   PerCurrency(250000000, <<Offer1>>, <<>>),
                   PerCurrency(0, <<>>, <<Loan500>>) } }

StartupFiles ==
    {AbsentFile, PartialFile}
        \cup { UnreadableFile(status) : status \in StatusesOf(StartupInputs) }
        \cup { CompleteFile(status) : status \in StatusesOf(StartupInputs) }

InitStartup ==
    /\ \E f \in StartupFiles : InitMonitorFrom("init_check", f)
    /\ InitBot("absent")

NextStartup ==
    \/ Fetch(StartupInputs)
    \/ ReturnEmpty
    \/ Diff
    \/ Replace
    \/ SaveOpen(BOOLEAN)
    \/ SaveDump(BOOLEAN)
    \/ EndCycle
    \/ RunStartBot
    \/ Tick
    \/ Crash
    \/ Boot

SpecStartup == InitStartup /\ [][NextStartup]_vars

\* run() with a bot, left to run: the loop calls run_pending() every second,
\* so a due job is started, and each step of a cycle is followed by the next
NextSchedule ==
    \/ Fetch(ServeInputs)
    \/ ReturnEmpty
    \/ Diff
    \/ Replace
    \/ SaveOpen(BOOLEAN)
    \/ SaveDump(BOOLEAN)
    \/ EndCycle
    \/ RunStartBot
    \/ Tick
    \/ \E w \in WorkerIds : WorkerTop(w)

FairSchedule ==
    /\ WF_vars(Fetch(ServeInputs))
    /\ WF_vars(ReturnEmpty)
    /\ WF_vars(Diff)
    /\ WF_vars(Replace)
    /\ WF_vars(SaveOpen(BOOLEAN))
    /\ WF_vars(SaveDump(BOOLEAN))
    /\ WF_vars(EndCycle)
    /\ WF_vars(RunStartBot)
    /\ WF_vars(Tick)

SpecSchedule == InitWithBot /\ [][NextSchedule]_vars /\ FairSchedule

\* the process entered through main.py, in every environment and on every
\* snapshot file
InitEntry ==
    /\ pc = "entry"
    /\ cpc = "idle"
    /\ previous_status = EmptyMap
    /\ current_status = EmptyMap
    /\ fetched = NoFetch
    /\ todo = {}
    /\ notes = {}
    /\ sends = NoSends
    /\ file \in StartupFiles
    /\ elapsed = 0
    /\ running = 0
    /\ config = [MONITORED_FUNDS |-> MONITORED_FUNDS]
    /\ environ \in SUBSET Credentials
    /\ bot = "absent"
    /\ is_running = FALSE
    /\ should_stop = FALSE
    /\ reconnect_delay = InitialDelay
    /\ bpc = NoWorkers
    /\ spc = "idle"
    /\ stop_req = {}
    /\ farewell = "none"
    /\ last_cmd = NoCommand
    /\ fails = [w \in WorkerIds |-> 0]
    /\ last_recreate = "none"

NextEntry ==
    \/ MainEntry
    \/ Fetch(StartupInputs)
    \/ ReturnEmpty
    \/ Diff
    \/ Replace
    \/ SaveOpen(BOOLEAN)
    \/ SaveDump(BOOLEAN)
    \/ EndCycle
    \/ RunStartBot
    \/ Tick
    \/ \E w \in WorkerIds : WorkerTop(w)

SpecEntry == InitEntry /\ [][NextEntry]_vars

\* the poll cycles under each setting of config.MONITORED_FUNDS: empty, or
\* one of the currencies listed
InitMonitored ==
    /\ InitMonitor("init_check")
    /\ config \in {[MONITORED_FUNDS |-> m] : m \in {{}, {"USD"}, {"BTC"}}}
    /\ environ = Credentials
    /\ bot = "absent"
    /\ is_running = FALSE
    /\ should_stop = FALSE
    /\ reconnect_delay = InitialDelay
    /\ bpc = NoWorkers
    /\ spc = "idle"
    /\ stop_req = {}
    /\ farewell = "none"
    /\ last_cmd = NoCommand
    /\ fails = [w \in WorkerIds |-> 0]
    /\ last_recreate = "none"

NextMonitored ==
    \/ Fetch(CoarseInputs)
    \/ ReturnEmpty
    \/ Diff
    \/ Replace
    \/ SaveOpen({TRUE})
    \/ SaveDump({TRUE})
    \/ EndCycle
    \/ RunStartBot
    \/ Tick

SpecMonitored == InitMonitored /\ [][NextMonitored]_vars

\* the poll cycles, any of which may be left by an exception part-way
NextRaise ==
    \/ Fetch(CoarseInputs)
    \/ ReturnEmpty
    \/ Diff
    \/ CycleRaises
    \/ ReturnRaised
    \/ Replace
    \/ SaveOpen(BOOLEAN)
    \/ SaveDump(BOOLEAN)
    \/ EndCycle
    \/ RunStartBot
    \/ Tick

SpecRaise == Init /\ [][NextRaise]_vars

\* USD lent in every cycle, its rate and its amount moving from one cycle
\* to the next; the file may keep an older snapshot when a write fails
CreepInputs ==
    { [c \in Currencies |->
          IF c = "USD" THEN PerCurrency(0, <<>>, <<l>>)
          ELSE PerCurrency(0, <<>>, <<>>)] :
        l \in {Loan500, Loan501, Loan502, Loan503, LoanAmt1, LoanAmt2} }

NextCreep ==
    \/ Fetch(CreepInputs)
    \/ Diff
    \/ Replace
    \/ SaveOpen(BOOLEAN)
    \/ SaveDump({TRUE})
    \/ EndCycle
    \/ RunStartBot
    \/ Tick

SpecCreep == Init /\ [][NextCreep]_vars

\* an exchange whose state never changes: 0.25 USD and 0.1 BTC in the funding
\* wallet, 0.5 USD lent at 3.65 %, 0.3 BTC offered at 7.3 %
SteadyExchange ==
    [ wallets |-> << RawWallet(TRUE, 5, "funding", "USD", TRUE, 250000000),
                     RawWallet(TRUE, 5, "funding", "BTC", TRUE, 100000000) >>,
      offers  |-> << RawOffer(TRUE, 22, "fBTC", TRUE, 300000000, TRUE, 20000) >>,
      loans   |-> << RawOffer(TRUE, 22, "fUSD", TRUE, 500000000, TRUE, 10000) >> ]

\* the status compiled when the three requests go through
SteadyStatus ==
    GetFundingStatusRaw("raises", SteadyExchange,
        [wallets |-> "ok", offers |-> "ok", loans |-> "ok"]).status

\* the poll cycles on that exchange, each request failing or not
NextOutage ==
    \/ FetchRaw({SteadyExchange})
    \/ ReturnEmpty
    \/ Diff
    \/ Replace
    \/ SaveOpen({TRUE})
    \/ SaveDump({TRUE})
    \/ EndCycle
    \/ RunStartBot
    \/ Tick

SpecOutage == Init /\ [][NextOutage]_vars

----------------------------------------------------------------------------
(* Properties *)

\* every currency of the cycle has been visited and its notification
\* dispatched; previous_status is still the snapshot the cycle diffed against
DiffDone == cpc = "diff" /\ todo = {}

Notified(c) == \E n \in notes : n.currency = c

SeenBefore(c) ==
    /\ c \in DOMAIN previous_status
    /\ previous_status[c].lending_status \in {"active", "offered", "inactive"}

Alive == pc \in {"init_check", "bot_start", "loop"}

\* C1: in a poll cycle every monitored currency whose previous lending status
\* (active, offered or inactive) differs from its current one gets a
\* notification sent in that cycle, for all six ordered pairs of statuses.
C1_EveryStatusChangeNotified ==
    DiffDone =>
        \A c \in DOMAIN current_status :
            (SeenBefore(c) /\ previous_status[c].lending_status
                                # current_status[c].lending_status)
                => Notified(c)

\* the comparison of C2 on one currency: the rate rounded to 2 decimals
\* moved by more than 0.01 or the loaned amount rounded to 8 decimals by more
\* than 0.0001, as Python evaluates the two comparisons on doubles
ParamsExceed(old, new) ==
    \/ RateDeltaExceeds(Round2(old.avg_loan_rate), Round2(new.avg_loan_rate))
    \/ AmountDeltaExceeds(Round8(old.loaned_amount), Round8(new.loaned_amount))

C3_FirstSeenNotNotified ==
    /\ DiffDone =>
         \A c \in DOMAIN current_status :
            (c \notin DOMAIN previous_status
               \/ PreviousOf(previous_status, c).lending_status = "unknown")
                => ~Notified(c)
    /\ (previous_status = EmptyMap /\ cpc = "diff") => notes = {}

\* a currency seen for the first time, offered, next to a known one
C3_Witness ==
    /\ DiffDone
    /\ previous_status # EmptyMap
    /\ \E c \in DOMAIN current_status :
         /\ c \notin DOMAIN previous_status
         /\ current_status[c].lending_status = "offered"

Clamp(x) == IF x < 0 THEN 0 ELSE x

\* C4: the lending status is a function of the summed offered and loaned
\* amounts: active when the loaned sum is > 0, else offered when the offered
\* sum is > 0, else inactive, for every sign combination, a negative sum
\* counting as zero.
C4_StatusFromAmounts ==
    \A c \in DOMAIN current_status :
        LET s == current_status[c]
            o == SumField(s.offers, "amount")
            l == SumField(s.loans, "amount")
        IN  /\ s.offered_amount = o
            /\ s.loaned_amount = l
            /\ (l > 0) => s.lending_status = "active"
            /\ (l <= 0 /\ o > 0) => s.lending_status = "offered"
            /\ (l <= 0 /\ o <= 0) => s.lending_status = "inactive"
            /\ s.lending_status =
                  IF Clamp(l) > 0 THEN "active"
                  ELSE IF Clamp(o) > 0 THEN "offered" ELSE "inactive"

\* a negative loaned sum with a positive offered sum
C4_Witness ==
    \E c \in DOMAIN current_status :
        /\ current_status[c].loaned_amount < 0
        /\ current_status[c].offered_amount > 0
        /\ current_status[c].lending_status = "offered"

\* C5: within a cycle the status is fetched first, every currency is diffed
\* against the unchanged in-memory snapshot and every notification sent, and
\* only then the snapshot is replaced by the current status and the file
\* overwritten with it; at the end of a completed cycle the in-memory
\* snapshot equals the cycle's current status.
C5_CycleOrder ==
    /\ [](cpc \in {"save", "dump", "summary"} => previous_status = current_status)
    /\ [][ /\ (current_status' # current_status /\ current_status' # EmptyMap)
                => (cpc = "idle" /\ cpc' = "diff" /\ notes' = {})
           /\ (notes' # notes /\ notes' # {})
                => (cpc = "diff" /\ todo # {} /\ UNCHANGED previous_status)
           /\ (previous_status' # previous_status /\ Alive /\ Alive')
                => (DiffDone /\ previous_status' = current_status
                    /\ UNCHANGED <<notes, sends, file>>)
           /\ (file' # file)
                => (/\ cpc \in {"save", "dump"}
                    /\ previous_status = current_status
                    /\ UNCHANGED <<notes, sends>>
                    /\ file' \in {PartialFile, CompleteFile(current_status)})
         ]_vars

\* the end of a cycle that notified and wrote the file
C5_Witness ==
    /\ cpc = "summary"
    /\ notes # {}
    /\ previous_status = current_status
    /\ file = CompleteFile(current_status)

\* C6: the write of the snapshot file is atomic for a reader: a crash or an
\* interruption during save_current_status never leaves a truncated or
\* partial file as the only copy.
C6_FileNeverLeftPartial ==
    pc \in {"terminated", "crashed"} => file.kind # "partial"

\* C7: a KeyboardInterrupt that arrives while a cycle is in flight lets the
\* cycle finish (snapshot replaced, file written) before the process ends.
C7_InterruptedCycleFinishes ==
    pc = "terminated" => cpc = "idle"

\* C8: at most one check_for_changes executes at any time; a cycle that
\* overruns the interval delays the next one.
C8_OneCycleAtATime ==
    /\ running <= 1
    /\ (Alive /\ cpc # "idle") => running = 1

\* a scheduled cycle still running when the next interval has passed
C8_Witness ==
    /\ pc = "loop"
    /\ cpc \in {"diff", "save", "dump", "summary"}
    /\ elapsed >= 1
    /\ running = 1

RECURSIVE Pow2(_)
Pow2(n) == IF n <= 0 THEN 1 ELSE 2 * Pow2(n - 1)

\* C9: the delay a run_bot thread sleeps after its k-th consecutive polling
\* failure (no listening period in between) is min(2^(k-1), 300) seconds,
\* and the delay stays within [1, 300]; stated for a thread running alone.
C9_WaitDoublesPerFailure ==
    /\ reconnect_delay >= 1
    /\ reconnect_delay <= max_reconnect_delay
    /\ \A w \in WorkerIds :
         (bpc[w] = "sleeping" /\ \A v \in WorkerIds \ {w} : bpc[v] = "none")
            => reconnect_delay = Min(Pow2(fails[w] - 1), max_reconnect_delay)

RecreateStep == \E w \in WorkerIds : bpc[w] = "recreate" /\ bpc'[w] = "top"

StartStep == ~is_running /\ is_running'

\* C10: the delay is reset to 1 second by a successful recreation of the bot
\* and by start(), so the polling failure that follows a successful
\* recreation waits 1 second; a failed recreation leaves the delay as it is
\* and nothing else lowers it.
C10_ResetOnReconnect ==
    [][ /\ (RecreateStep /\ last_recreate' = "ok") => reconnect_delay' = 1
        /\ (RecreateStep /\ last_recreate' = "failed")
              => reconnect_delay' = reconnect_delay
        /\ StartStep => reconnect_delay' = 1
        /\ (reconnect_delay' < reconnect_delay)
              => (StartStep \/ (RecreateStep /\ last_recreate' = "ok"))
        /\ \A w \in WorkerIds :
              (bpc'[w] = "sleeping" /\ bpc[w] # "sleeping" /\ last_recreate = "ok")
                 => reconnect_delay' = 1
      ]_vars

\* a thread alone sleeps 1 second after its third polling failure in a row,
\* the recreation before it having succeeded and reset the delay
C10_Witness ==
    /\ last_recreate = "ok"
    /\ reconnect_delay = 1
    /\ \E w \in WorkerIds :
         /\ bpc[w] = "sleeping"
         /\ fails[w] = 3
         /\ \A v \in WorkerIds \ {w} : bpc[v] = "none"

StopCalled == spc = "idle" /\ spc' = "join"

C12_UnauthorizedNeverServed ==
    (last_cmd.cmd # "none" /\ last_cmd.chat # CHAT_ID)
        => (last_cmd.replies = <<Rejection>> /\ last_cmd.fetches = {})

\* /rates from another chat
C12_Witness ==
    /\ last_cmd.cmd = "rates"
    /\ last_cmd.chat = "222"
    /\ last_cmd.replies = <<Rejection>>

\* the sequence holds every element of the set exactly once
ExactlyOnce(seq, set) ==
    /\ Len(seq) = Cardinality(set)
    /\ \A x \in set : \E i \in DOMAIN seq : seq[i] = x

\* C13: a cycle calls send_notification at most once per currency and each
\* call attempts every configured channel exactly once; the snapshot advances
\* to the current status after the loop whether or not a channel accepted the
\* message, and a cycle that observes the state of the snapshot sends nothing.
C13_DispatchedOnceThenLost ==
    /\ [](\A c \in Currencies : sends[c] <= 1)
    /\ [](\A n \in notes : ExactlyOnce(n.attempted, Channels))
    /\ []((cpc = "diff" /\ current_status = previous_status) => notes = {})
    /\ [][(DiffDone /\ cpc' = "save") => previous_status' = current_status]_vars

\* the snapshot has advanced past a change whose notification no channel
\* accepted
C13_Witness ==
    /\ cpc = "save"
    /\ previous_status = current_status
    /\ \E n \in notes : ~n.successful

\* C14: send_notification attempts every configured channel once, also
\* after a channel that failed or raised, and returns True exactly when a
\* channel answered Success.
C14_EveryChannelAttempted ==
    \A n \in notes :
        "outcomes" \in DOMAIN n =>
            /\ ExactlyOnce(n.attempted, DOMAIN n.outcomes)
            /\ n.successful <=>
                  \E channel_name \in DOMAIN n.outcomes :
                      n.outcomes[channel_name] = "Success"

\* the first channel raised, the second failed, the last one accepted
C14_Witness ==
    \E n \in notes :
        /\ "outcomes" \in DOMAIN n
        /\ DOMAIN n.outcomes = {"email", "telegram", "desktop"}
        /\ n.outcomes["email"] = "raise"
        /\ n.outcomes["telegram"] = "Failure"
        /\ n.outcomes["desktop"] = "Success"
        /\ n.attempted = <<"email", "telegram", "desktop">>
        /\ n.successful

CycleEnds == cpc # "idle" /\ cpc' = "idle" /\ Alive'

Dropped == DOMAIN previous_status \ DOMAIN current_status

C16_Idempotent ==
    /\ []((cpc \in {"diff", "empty"} /\ current_status = previous_status)
            => (notes = {} /\ sends = NoSends))
    /\ [][(cpc # "idle" /\ current_status = previous_status /\ Alive')
            => /\ UNCHANGED previous_status
               /\ file' \in {file, PartialFile, CompleteFile(previous_status)}]_vars

\* the loop is over for a status equal to the snapshot, with a loan in it
C16_Witness ==
    /\ DiffDone
    /\ current_status = previous_status
    /\ \E c \in DOMAIN current_status :
         current_status[c].lending_status = "active"
    /\ \E c \in DOMAIN current_status :
         current_status[c].lending_status = "offered"
    /\ notes = {}

\* C17: between two active snapshots of a currency whose loaned amount is
\* the same, a change of the average loan rate of exactly 0.01 is not
\* notified and a larger change is.
C17_RateStepBoundary ==
    DiffDone =>
        \A c \in DOMAIN current_status :
            (/\ SeenBefore(c)
             /\ previous_status[c].lending_status = "active"
             /\ current_status[c].lending_status = "active"
             /\ previous_status[c].loaned_amount = current_status[c].loaned_amount)
            => LET d == Abs(previous_status[c].avg_loan_rate
                              - current_status[c].avg_loan_rate)
               IN  /\ (d = 10) => ~Notified(c)
                   /\ (d > 10) => Notified(c)

\* the cycle made one call of send_notification for the currency, with this
\* text
OnlyMessage(c, text) ==
    /\ sends[c] = 1
    /\ \E n \in notes : n.currency = c
    /\ \A n \in notes : n.currency = c =>
          (n.message = text /\ n.title = "Bitfinex " \o c \o " Lending Status Change")

\* C18: the message of a status transition is selected by the pair of
\* statuses: the four texts of inactive -> offered, offered -> active (with
\* the new average loan rate rounded to 2 decimals), offered -> inactive and
\* active -> inactive, one message each.
C18_TransitionMessages ==
    DiffDone =>
        \A c \in DOMAIN current_status :
            SeenBefore(c) =>
                LET old == previous_status[c].lending_status
                    new == current_status[c].lending_status
                IN  /\ (old = "inactive" /\ new = "offered") =>
                        OnlyMessage(c, c \o " funds are now offered for lending")
                    /\ (old = "offered" /\ new = "active") =>
                        OnlyMessage(c, c \o ": Lending activated at "
                            \o FloatStr(Round2(current_status[c].avg_loan_rate), 2)
                            \o "% APR")
                    /\ (old = "offered" /\ new = "inactive") =>
                        OnlyMessage(c, c \o ": Lending cancelled")
                    /\ (old = "active" /\ new = "inactive") =>
                        OnlyMessage(c, c \o ": Lending closed, funds returned")

\* USD went from offered to a loan at 5.012 %, BTC from a loan to inactive
C18_Witness ==
    /\ DiffDone
    /\ OnlyMessage("USD", "USD: Lending activated at 5.01% APR")
    /\ OnlyMessage("BTC", "BTC: Lending closed, funds returned")

WalletOnly == DOMAIN fetched.balances \ (DOMAIN fetched.offers \cup DOMAIN fetched.loans)

\* C20: the keys of the aggregated status are exactly the currencies that are
\* a key of the balances, of the offers or of the loans read, and a currency
\* read in the wallet only, without offer or loan, is in the status, with the
\* lending status 'inactive'.
C20_StatusKeysAreUnion ==
    (cpc # "idle") =>
        /\ DOMAIN current_status =
              DOMAIN fetched.balances \cup DOMAIN fetched.offers
                  \cup DOMAIN fetched.loans
        /\ \A c \in WalletOnly :
              /\ c \in DOMAIN current_status
              /\ current_status[c].lending_status = "inactive"
              /\ current_status[c].wallet_balance = fetched.balances[c]

\* the wallet holds USD alone, BTC is lent and in no wallet, and the status
\* has both: USD inactive, BTC active
C20_Witness ==
    /\ cpc = "diff"
    /\ WalletOnly = {"USD"}
    /\ DOMAIN fetched.balances = {"USD"}
    /\ DOMAIN fetched.loans = {"BTC"}
    /\ DOMAIN current_status = {"USD", "BTC"}
    /\ current_status["USD"].lending_status = "inactive"
    /\ current_status["BTC"].lending_status = "active"


\* the wallet amount and the loans get_funding_status read for a currency
WalletRead(c) == IF c \in DOMAIN fetched.balances THEN fetched.balances[c] ELSE 0

LoansRead(c) == IF c \in DOMAIN fetched.loans THEN fetched.loans[c] ELSE <<>>

\* C21: for every currency of the aggregated status, total_balance is the
\* wallet balance plus the loaned amount, these being the wallet amount read
\* and the sum of the loans read; the offered amount is not part of it.
C21_TotalBalance ==
    \A c \in DOMAIN current_status :
        LET s == current_status[c]
        IN  /\ s.total_balance = s.wallet_balance + s.loaned_amount
            /\ s.wallet_balance = WalletRead(c)
            /\ s.loaned_amount = SumField(LoansRead(c), "amount")

\* a currency with a wallet amount, an open offer and a loan: the total is
\* 0.25 + 0.5 and leaves the offer out
C21_Witness ==
    \E c \in DOMAIN current_status :
        /\ current_status[c].wallet_balance = 250000000
        /\ current_status[c].offered_amount > 0
        /\ current_status[c].loaned_amount = 500000000
        /\ current_status[c].total_balance = 750000000


DataCommands == {"status", "active", "offered", "inactive", "rates"}

\* C22: the chat front-end never writes the snapshot file nor the in-memory
\* previous snapshot: these change only by the cycle's own steps (the
\* replacement by its current status, the write of that status), whatever
\* command is served in between, and every data command of the authorized
\* chat is answered from a fetch of its own.
C22_FrontEndLeavesSnapshot ==
    /\ [][(previous_status' # previous_status)
            => (DiffDone /\ cpc' = "save" /\ previous_status' = current_status)]_vars
    /\ [][(file' # file)
            => /\ cpc \in {"save", "dump"}
               /\ file' \in {PartialFile, CompleteFile(current_status)}]_vars
    /\ [][(last_cmd' # last_cmd)
            => UNCHANGED <<previous_status, current_status, todo, notes, file>>]_vars
    /\ []((last_cmd.cmd \in DataCommands /\ last_cmd.chat = CHAT_ID)
            => "get_funding_status" \in last_cmd.fetches)

\* a /status served while the cycle was diffing a loan against an empty
\* snapshot, answered from a fetch that found nothing; the cycle then
\* wrote its own status
C22_Witness ==
    /\ cpc = "summary"
    /\ last_cmd.cmd = "status"
    /\ last_cmd.chat = CHAT_ID
    /\ last_cmd.at = "diff"
    /\ last_cmd.replies = <<"No funding data available.">>
    /\ "USD" \in DOMAIN current_status
    /\ current_status["USD"].lending_status = "active"
    /\ previous_status = current_status
    /\ file = CompleteFile(current_status)


\* C23: every command of the authorized chat (/start, /help, /status,
\* /active, /offered, /inactive, /rates) gets at least one reply; when the
\* handling raised, the error is logged and the last reply is the error text
\* of the command.
C23_AlwaysReplied ==
    (last_cmd.cmd # "none" /\ last_cmd.chat = CHAT_ID) =>
        /\ last_cmd.cmd \in Commands
        /\ Len(last_cmd.replies) >= 1
        /\ (last_cmd.logged # <<>>) =>
              last_cmd.replies[Len(last_cmd.replies)] = ErrorText(last_cmd.cmd)

\* /active of the authorized chat raised: the error text is the only reply
C23_Witness ==
    /\ last_cmd.cmd = "active"
    /\ last_cmd.chat = CHAT_ID
    /\ last_cmd.logged = <<"error">>
    /\ last_cmd.replies = <<"Error getting active loans">>


\* C25: in the /rates reply the indicator of a currency with active loans
\* is "better than market" exactly when the average loan rate the aggregator
\* computed for it is >= the market reference rate (FRR), "average" when it
\* is below FRR but >= the bid, "worse" otherwise; for a currency with open
\* offers it is the average offer rate against FRR and the ask, inverted.
C25_RateIndicator ==
    \A l \in last_cmd.lines :
        l.indicator =
            IF l.section = "loans"
            THEN IF l.own_rate >= l.rates.frr_rate THEN "+"
                 ELSE IF l.own_rate >= l.rates.bid_rate THEN "o" ELSE "-"
            ELSE IF l.own_rate <= l.rates.frr_rate THEN "+"
                 ELSE IF l.own_rate <= l.rates.ask_rate THEN "o" ELSE "-"


\* C24: every reply the bot sends for /status, /status <currency>, /active,
\* /offered, /inactive and /rates has at most 4096 characters; the text is
\* sent, cut and ending with the truncation marker when it would be longer,
\* instead of being refused, and it is one message (that /rates announces
\* first, when it shows the default currencies).
C24_RepliesFit ==
    (last_cmd.cmd \in DataCommands /\ last_cmd.chat = CHAT_ID) =>
        /\ \A i \in 1..Len(last_cmd.replies) :
              Len(last_cmd.replies[i]) <= TelegramLimit
        /\ last_cmd.logged # <<"error: message is too long">>
        /\ \/ Len(last_cmd.replies) = 1
           \/ /\ last_cmd.cmd = "rates"
              /\ Len(last_cmd.replies) = 2
              /\ SubSeq(last_cmd.replies[1], 1, 5) = "## No"

\* /status USD on 100 loans: the reply is cut at 3950 characters and marked
C24_CutReached ==
    /\ last_cmd.cmd = "status"
    /\ last_cmd.arg = "usd"
    /\ last_cmd.chat = CHAT_ID
    /\ Len(last_cmd.replies) = 1
    /\ Len(last_cmd.replies[1]) = CutAt + Len(TruncationMarker)


\* a raw wallet, offer or loan that is not what the exchange documents: no
\* list, too short, or with an amount that is no number
MalformedWallet(w) == ~w.islist \/ w.len < 4 \/ ~w.amount_ok

MalformedOffer(o) == ~o.islist \/ o.len < 16 \/ ~o.amount_ok

MalformedIn(batch, Malformed(_)) == {i \in 1..Len(batch) : Malformed(batch[i])}

Called == fetched # NoFetch /\ "raw" \in DOMAIN fetched

\* the well-formed records of a batch are all in what the fetch returns
WalletsParsed(batch, balances) ==
    \A i \in 1..Len(batch) :
        ~MalformedWallet(batch[i]) =>
            \E c \in DOMAIN balances : balances[c] = batch[i].amount

OffersParsed(batch, by_currency) ==
    \A i \in 1..Len(batch) :
        ~MalformedOffer(batch[i]) =>
            \E c \in DOMAIN by_currency : \E j \in 1..Len(by_currency[c]) :
                by_currency[c][j] = Offer(batch[i].amount, Apr(batch[i].rate))

\* C26: in each batch of raw records (wallets, offers, loans) received, a
\* malformed record never aborts the batch: of N records with exactly one
\* malformed, at any position, the N-1 others are parsed.
C26_MalformedRecordIsolated ==
    Called =>
        /\ ( /\ fetched.transport.wallets = "ok"
             /\ Cardinality(MalformedIn(fetched.raw.wallets, MalformedWallet)) = 1 )
              => /\ WalletsParsed(fetched.raw.wallets, fetched.balances)
                 /\ Cardinality(DOMAIN fetched.balances)
                        = Len(fetched.raw.wallets) - 1
        /\ ( /\ fetched.transport.offers = "ok"
             /\ Cardinality(MalformedIn(fetched.raw.offers, MalformedOffer)) = 1 )
              => OffersParsed(fetched.raw.offers, fetched.offers)
        /\ ( /\ fetched.transport.loans = "ok"
             /\ Cardinality(MalformedIn(fetched.raw.loans, MalformedOffer)) = 1 )
              => OffersParsed(fetched.raw.loans, fetched.loans)

\* the same for the offers and the loans alone
C26_OffersIsolated ==
    Called =>
        /\ ( /\ fetched.transport.offers = "ok"
             /\ Cardinality(MalformedIn(fetched.raw.offers, MalformedOffer)) = 1 )
              => OffersParsed(fetched.raw.offers, fetched.offers)
        /\ ( /\ fetched.transport.loans = "ok"
             /\ Cardinality(MalformedIn(fetched.raw.loans, MalformedOffer)) = 1 )
              => OffersParsed(fetched.raw.loans, fetched.loans)


\* a fetch that failed: the request of the offers or of the loans answered
\* no 200 or raised; for the balances, CCXT gave nothing and the direct
\* request answered no 200 or raised
Failed(kind) ==
    /\ fetched.transport[kind] # "ok"
    /\ kind = "wallets" => fetched.ccxt \in {"raises", "bare"}

\* C27: get_funding_status never raises; when one of the three requests
\* (balances, offers, loans) fails at the transport level, that fetch gives
\* an empty map and the status is still compiled from what the other two
\* returned.
C27_PartialOutage ==
    Called =>
        /\ Failed("wallets") => fetched.balances = EmptyMap
        /\ Failed("offers") => fetched.offers = EmptyMap
        /\ Failed("loans") => fetched.loans = EmptyMap
        /\ ~Failed("offers") =>
              fetched.offers = OfferLoop(fetched.raw.offers, 1, EmptyMap)
        /\ ~Failed("loans") =>
              fetched.loans = OfferLoop(fetched.raw.loans, 1, EmptyMap)
        /\ (~Failed("wallets") /\ MalformedIn(fetched.raw.wallets, MalformedWallet) = {})
              => Cardinality(DOMAIN fetched.balances) = Len(fetched.raw.wallets)
        /\ fetched.status =
              GetFundingStatus(fetched.balances, fetched.offers, fetched.loans)
        /\ DOMAIN fetched.status =
              DOMAIN fetched.balances \cup DOMAIN fetched.offers
                  \cup DOMAIN fetched.loans

\* the offers request fails, and the status has the USD wallet and the USD
\* loan: active, 0.25 in the wallet, nothing offered
C27_Witness ==
    /\ Called
    /\ fetched.transport = [wallets |-> "ok", offers |-> "raises", loans |-> "ok"]
    /\ fetched.raw.offers = GoodOffers
    /\ "USD" \in DOMAIN fetched.status
    /\ fetched.status["USD"].lending_status = "active"
    /\ fetched.status["USD"].wallet_balance = 250000000
    /\ fetched.status["USD"].offered_amount = 0


\* the canonical key of a currency: a leading lowercase "f" is taken off and
\* the rest is upper-cased; a symbol without it is only upper-cased
Canonical(symbol) ==
    IF StartsWith(symbol, "f") THEN StrUpper(DropFirst(symbol))
    ELSE StrUpper(symbol)

\* an offer or a loan that the loop passes over (bitfinex_api.py:240, 316)
PassedOver(o) == ~o.islist \/ o.len < 16

CanonicalKeys(batch, Malformed(_)) ==
    { Canonical(IF "symbol" \in DOMAIN batch[i] THEN batch[i].symbol
                ELSE batch[i].currency) :
         i \in (1..Len(batch)) \ MalformedIn(batch, Malformed) }

\* C28: the keys of the three maps are canonical: the funding prefix, a
\* lowercase "f", is taken off and the rest is upper-cased; a code that
\* begins with an upper-case F (FIL) keeps it.
C28_CanonicalKeys ==
    (Called /\ fetched.transport = [wallets |-> "ok", offers |-> "ok", loans |-> "ok"])
        => /\ MalformedIn(fetched.raw.wallets, MalformedWallet) = {}
                => DOMAIN fetched.balances
                       = CanonicalKeys(fetched.raw.wallets, MalformedWallet)
           /\ DOMAIN fetched.offers = CanonicalKeys(fetched.raw.offers, PassedOver)
           /\ DOMAIN fetched.loans = CanonicalKeys(fetched.raw.loans, PassedOver)

\* the keys of the offers and of the loans alone
C28_OfferKeysCanonical ==
    (Called /\ fetched.transport = [wallets |-> "ok", offers |-> "ok", loans |-> "ok"])
        => /\ DOMAIN fetched.offers = CanonicalKeys(fetched.raw.offers, PassedOver)
           /\ DOMAIN fetched.loans = CanonicalKeys(fetched.raw.loans, PassedOver)


\* the first poll cycle of the process, the snapshot not yet replaced: the
\* file is the one load_previous_status found
FirstCycle == pc = "init_check" /\ cpc \in {"idle", "empty", "diff"}

\* C29: started on a snapshot file that is absent, unreadable or no valid
\* JSON, the monitor has an empty previous snapshot and runs; its first
\* cycle takes every currency as first seen and notifies nothing.
C29_StartsEmpty ==
    (FirstCycle /\ file.kind \in {"absent", "unreadable", "partial"})
        => /\ previous_status = EmptyMap
           /\ notes = {}
           /\ \A currency \in DOMAIN current_status :
                 Verdict(PreviousOf(previous_status, currency),
                         current_status[currency]) = "first"

\* the file, unreadable, holds USD as offered; the first cycle has found USD
\* active and visited it
C29_Witness ==
    /\ pc = "init_check"
    /\ DiffDone
    /\ file.kind = "unreadable"
    /\ "USD" \in DOMAIN file.data
    /\ JsonLoad(file.data)["USD"].lending_status = "offered"
    /\ "USD" \in DOMAIN current_status
    /\ current_status["USD"].lending_status = "active"


\* save_current_status has returned and the file does not hold the status
\* of the cycle: open() or json.dump raised
WriteFailed == At("summary") /\ file # CompleteFile(current_status)

\* C30: a write of the snapshot file that fails does not abort the cycle and
\* does not take the snapshot back: the cycle goes on to its summary with
\* previous_status equal to its current status; a later cycle that fetches
\* the same status notifies nothing; and every cycle that gets past the diff
\* writes again, a write that succeeds leaving the file with the status of
\* that cycle.
C30_WriteFailureTolerated ==
    /\ [](At("summary") => previous_status = current_status)
    /\ []((At("diff") /\ current_status = previous_status) => notes = {})
    /\ [][(At("save") \/ At("dump")) =>
             \/ pc' \in {"terminated", "crashed", "stopping"}
             \/ /\ cpc' \in {cpc, "dump", "summary"}
                /\ previous_status' = previous_status
                /\ notes' = notes]_vars
    /\ [][(At("diff") /\ cpc' # "diff" /\ pc' = pc) => cpc' = "save"]_vars
    /\ [][(At("dump") /\ cpc' = "summary") =>
             file' \in {CompleteFile(current_status), PartialFile}]_vars

\* the cycle notified a change of USD, its write failed, and the snapshot
\* has advanced to the status of the cycle
C30_Witness ==
    /\ WriteFailed
    /\ notes # {}
    /\ "USD" \in DOMAIN current_status
    /\ previous_status = current_status


\* the first cycle after a start that found a complete snapshot file, every
\* currency visited
RestartedOn(snapshot) ==
    /\ pc = "init_check"
    /\ DiffDone
    /\ file.kind = "complete"
    /\ snapshot = LoadPreviousStatus(file)

CycleStarts == cpc = "idle" /\ cpc' # "idle"

CycleReturns == cpc # "idle" /\ cpc' = "idle"

BotStarted == is_running \/ \E w \in WorkerIds : bpc[w] # "none"

\* C32: on start the snapshot is loaded, then one cycle runs at once; the
\* bot is started when that cycle has returned and not before; after it a
\* cycle starts only when an interval has passed since the job was scheduled
\* or last ran, and cycles keep coming for ever.
C32_StartThenEveryInterval ==
    /\ []((pc = "init_check" /\ cpc = "idle")
             => previous_status = LoadPreviousStatus(file))
    /\ [](pc = "init_check" => ~BotStarted)
    /\ [][CycleStarts =>
             \/ pc = "init_check"
             \/ pc = "loop" /\ elapsed >= 1]_vars
    /\ [][(CycleReturns /\ pc = "init_check") => pc' = "bot_start"]_vars
    /\ [][(CycleReturns /\ pc = "loop") => (pc' = "loop" /\ elapsed' = 0)]_vars
    /\ [][(~BotStarted /\ BotStarted') => (pc = "bot_start" /\ cpc = "idle")]_vars
    /\ (pc = "init_check" /\ cpc = "idle") ~> (pc = "init_check" /\ cpc # "idle")
    /\ (pc = "init_check") ~> (pc = "loop")
    /\ []<>(pc = "loop" /\ cpc = "idle" /\ elapsed = 0)
    /\ []<>(pc = "loop" /\ cpc # "idle")

\* a scheduled cycle in flight, the bot running, the snapshot of an earlier
\* cycle in memory
C32_Witness ==
    /\ pc = "loop"
    /\ cpc = "diff"
    /\ is_running
    /\ previous_status # EmptyMap


CredentialsMissing == ~(Credentials \subseteq environ)

\* C33: without the API key or the API secret the process exits with code 1
\* at its entry: no monitor, exchange client, notifier or bot is constructed,
\* no cycle runs, nothing is notified and the snapshot file is not written.
C33_NoPartialStartup ==
    /\ [](CredentialsMissing =>
             /\ pc \in {"entry", "exit_1"}
             /\ cpc = "idle" /\ running = 0
             /\ bot = "absent" /\ ~BotStarted
             /\ previous_status = EmptyMap /\ current_status = EmptyMap
             /\ fetched = NoFetch
             /\ notes = {})
    /\ [](pc = "exit_1" => CredentialsMissing)
    /\ [][CredentialsMissing =>
             (pc = "entry" /\ pc' = "exit_1" /\ file' = file)]_vars

\* exited with code 1: the secret is not set, the snapshot file is as it was
C33_Witness ==
    /\ pc = "exit_1"
    /\ environ = {"BITFINEX_API_KEY"}
    /\ file.kind = "complete"
    /\ file.data # EmptyMap


\* C34: every command from a chat other than the authorized one is logged
\* as an unauthorized access attempt, whichever command it is.
C34_UnauthorizedLogged ==
    (last_cmd.cmd # "none" /\ last_cmd.chat # CHAT_ID)
        => last_cmd.logged = <<"Unauthorized access attempt">>

\* the same for /start and /help alone
C34_StartHelpLogged ==
    (last_cmd.cmd \in {"start", "help"} /\ last_cmd.chat # CHAT_ID)
        => last_cmd.logged = <<"Unauthorized access attempt">>


\* the status get_funding_status compiled for the cycle in flight
StatusRead == GetFundingStatus(fetched.balances, fetched.offers, fetched.loans)

Listed(c) == config.MONITORED_FUNDS = {} \/ c \in config.MONITORED_FUNDS

\* C35: with MONITORED_FUNDS empty every currency of the status is diffed;
\* with a list, the listed currencies of the status are diffed and no other:
\* a currency outside the list is never notified and is in neither the
\* snapshot in memory nor the file.
C35_OnlyMonitoredFunds ==
    /\ cpc \in {"diff", "save", "dump", "summary"}
          => DOMAIN current_status = {c \in DOMAIN StatusRead : Listed(c)}
    /\ \A c \in Currencies :
          ~Listed(c) => /\ ~Notified(c)
                        /\ sends[c] = 0
                        /\ c \notin todo
                        /\ c \notin DOMAIN previous_status
                        /\ c \notin DOMAIN file.data

\* USD alone is listed; the cycle read a loan of BTC, which the snapshot of
\* the cycle before did not have, and ends with USD alone in the file
C35_Witness ==
    /\ config.MONITORED_FUNDS = {"USD"}
    /\ pc = "loop"
    /\ cpc = "summary"
    /\ "BTC" \in DOMAIN fetched.loans
    /\ DOMAIN previous_status = {"USD"}
    /\ file = CompleteFile(current_status)
    /\ Notified("USD")


\* C36: a cycle whose aggregated status is empty sends nothing and returns
\* with the snapshot in memory and the file as they were, so that the next
\* cycle is diffed against the last snapshot that was stored.
C36_EmptyStatusLeavesSnapshot ==
    /\ [](cpc = "empty" =>
             /\ StatusRead = EmptyMap
             /\ notes = {} /\ sends = NoSends /\ todo = {})
    /\ [](cpc \in {"diff", "save", "dump", "summary"} => StatusRead # EmptyMap)
    /\ [][cpc = "empty" =>
             /\ cpc' \in {"empty", "idle"}
             /\ UNCHANGED <<previous_status, file>>
             /\ notes' = {}]_vars

\* the cycle found nothing; the snapshot of the cycle before, with USD
\* active, is in memory and in the file
C36_Witness ==
    /\ cpc = "empty"
    /\ "USD" \in DOMAIN previous_status
    /\ previous_status["USD"].lending_status = "active"
    /\ file = CompleteFile(previous_status)


\* C37: a cycle left by an exception part-way returns to the scheduler
\* loop, which goes on; the snapshot in memory and the file are as they were
\* when the cycle began, so every change the cycle had notified is still a
\* change against the snapshot: the same status read again gives the same
\* message.
C37_AbortedCycleLeavesSnapshot ==
    /\ [][(cpc = "diff" /\ cpc' = "raised") =>
             UNCHANGED <<previous_status, file, notes>>]_vars
    /\ [][cpc = "raised" =>
             /\ UNCHANGED <<previous_status, file>>
             /\ cpc' \in {"raised", "idle"}
             /\ cpc' = "idle" =>
                   pc' = (IF pc = "init_check" THEN "bot_start" ELSE "loop")]_vars
    /\ [][(cpc \in {"diff", "raised"} /\ cpc' \in {"diff", "raised"})
             => UNCHANGED <<previous_status, file>>]_vars
    /\ [](cpc = "raised" =>
             \A n \in notes :
                LET previous == PreviousOf(previous_status, n.currency)
                    status   == current_status[n.currency]
                IN  /\ Verdict(previous, status) \in {"status", "params"}
                    /\ n.message = Message(n.currency, previous, status))
    /\ []((pc = "loop" /\ cpc = "idle" /\ elapsed >= 1) => ENABLED Fetch(CoarseInputs))

\* the cycle notified that USD lending closed and was then left by an
\* exception on BTC; the snapshot still has USD active
C37_Witness ==
    /\ cpc = "raised"
    /\ pc = "loop"
    /\ Notified("USD")
    /\ todo = {"BTC"}
    /\ "USD" \in DOMAIN previous_status
    /\ previous_status["USD"].lending_status = "active"
    /\ current_status["USD"].lending_status = "inactive"
    /\ file = CompleteFile(previous_status)


ActiveInBoth(c) ==
    /\ c \in DOMAIN previous_status \cap DOMAIN current_status
    /\ previous_status[c].lending_status = "active"
    /\ current_status[c].lending_status = "active"

C39_NoFalseAlarm ==
    /\ \A n \in notes :
          n.message \notin { n.currency \o ": Lending closed, funds returned",
                             n.currency \o ": Lending cancelled" }
    /\ \A c \in DOMAIN previous_status : previous_status[c] = SteadyStatus[c]

\* the part that holds: nothing is sent by a cycle whose three requests went
\* through
C39_QuietWhenComplete ==
    (cpc = "diff" /\ fetched.status = SteadyStatus /\ previous_status = SteadyStatus)
        => notes = {}


\* the run_bot threads that have not ended
LiveWorkers == {w \in WorkerIds : bpc[w] # "none"}

\* C40: at most one run_bot thread exists at any time and is_running is
\* true exactly while it is alive, also when start() follows a stop() whose
\* join timed out.
C40_SingleWorker ==
    /\ Cardinality(LiveWorkers) <= 1
    /\ is_running <=> LiveWorkers # {}

\* the parts that hold: a run_bot thread exists whenever is_running is
\* true, start() creates a thread only when is_running is false, and no
\* second thread exists before a stop() has returned on a live thread
C40_RunningHasWorker ==
    /\ [](is_running => LiveWorkers # {})
    /\ [][ /\ LiveWorkers' \ LiveWorkers # {} => ~is_running /\ is_running'
           /\ (is_running /\ spc = "idle" /\ Cardinality(LiveWorkers) = 1)
                 => Cardinality(LiveWorkers') <= 1
         ]_vars


====
